---- MODULE Spec2Model ----
(***************************************************************************)
(* Tenant configuration cache, S3 credential store/cache and event         *)
(* dispatch of the storage service.                                        *)
(*   src/src/internal/database/tenant.ts                                   *)
(*   src/src/internal/queue/event.ts                                       *)
(*                                                                         *)
(* JavaScript runs every synchronous stretch of code atomically; an action *)
(* of this model is one such stretch, from a call or the resumption of an  *)
(* `await` up to the next `await` or the return.                           *)
(*                                                                         *)
(* A value that may be undefined/null is modelled as a set with at most    *)
(* one element: {} is undefined, {v} is the value v.                       *)
(***************************************************************************)
EXTENDS Integers, Sequences, FiniteSets, TLC

\* ---------------------------------------------------------------- bounds
\* Number of concurrent callers of getTenantConfig.
NumCallers == 2
\* Number of versions a tenant row goes through (secret rotations + 1).
MaxRowVersion == 2
\* Number of events handed to one batchSend call.
MaxBatch == 2

\* ------------------------------------------------------------ identifiers
Tenants == {"t1", "t2"}
\* Tenant ids a caller may pass; the empty string is the invalid id.
TenantIds == Tenants \cup {""}
Callers == {"caller" \o ToString(i) : i \in 1..NumCallers}
\* The send() invocations that can be in flight together: one per event of a batch.
Sends == 1..MaxBatch
\* The process that runs the s-th send() (it calls getTenantConfig via shouldSend).
SenderOf(s) == "sender" \o ToString(s)
Sender == SenderOf(1)
Procs == {SenderOf(s) : s \in Sends} \cup Callers

Some(v) == {v}
None == {}
TheOne(s) == CHOOSE v \in s : TRUE

VARIABLES
  tenants,            \* table 'tenants' of the multi-tenant database: set of rows
  tenantConfigCache,  \* Map<string, TenantConfig>: function on the cached ids
  tenantMutex,        \* keyed mutex: tenant id -> holder (set of at most one process)
  pc,                 \* position of each process inside getTenantConfig
  tenantId,           \* getTenantConfig's argument, per process
  tenant,             \* the row read by the store query, per process
  result,             \* what the call returned or threw, per process
  queries,            \* ghost: store queries issued for a tenant since its last
                      \*        invalidation
  returned,           \* ghost: configs returned for a tenant since then
  lastDelete,         \* ghost: what the last deleteTenantConfig(t) found
  failed,             \* ghost: a population of t failed since its last invalidation
  rotation,           \* ghost: "none", row "changed", or "rotated" (changed, then deleted)
  afterRotation,      \* ghost: the call started after a rotation was invalidated
  pgQueueEnable,      \* getConfig().pgQueueEnable
  isMultitenant,      \* getConfig().isMultitenant
  spc,                \* position inside Event.send, per send() invocation
  event,              \* the Event instance: its class (static members) and payload
  shouldSendRes,      \* send's local `shouldSend`: "pending", "true", "false", "threw"
  queueSends,         \* every call of Queue.getInstance().send the invocation made, in order
  queueJobs,          \* the jobs the queue accepted from the invocation, in order
  handled,            \* every call of the class's handle() the invocation made, in order
  steps,              \* the order of shouldSend, Queue.send and handle calls of this send
  sendResult,         \* what send() returned or threw
  bpc,                \* position inside Event.batchSend
  batch,              \* the batchSend call: the class it is called on and its messages
  invoked,            \* the messages batchSend called send() on, by index, in order
  queueInserts,       \* every call of Queue.getInstance().insert, in order: its job list
  batchResult,        \* what batchSend returned or threw
  lpc,                \* position inside listenForTenantUpdate
  subscribed,         \* the channels whose handler the pub/sub adapter has registered
  lastMessage,        \* ghost: the last message a handler was called with
  s3Credentials,      \* table 'tenants_s3_credentials': set of rows
  tenantS3CredentialsCache, \* LRUCache<string, S3Credentials>: function on the cached keys
  s3CredentialsMutex, \* keyed mutex: cache key -> holder (set of at most one client)
  published,          \* messages this instance published: <<channel, cache key>>
  cpc,                \* position of each client inside its credential call
  credCall,           \* the call a client is running and its arguments
  pendingInsert,      \* the row createS3Credentials prepared for its insert, per client
  credResult,         \* what the client's call returned or threw
  idSeq,              \* serial of the table's id column
  drawn,              \* how many random key pairs were drawn
  createCalls,        \* how many createS3Credentials calls were made
  countedRows,        \* ghost: rows the tenant had when the store ran this call's count
  insertedRows,       \* ghost: rows this createS3Credentials call inserted
  overlapped,         \* ghost: another create for the same tenant ran during this call
  deletedKeys,        \* ghost: cache keys of the rows completed deletes removed
  afterDelete,        \* ghost: the lookup started after its credential was deleted
  credQueries,        \* ghost: store queries for a cache key since it last left the cache
                      \*        or was last found missing
  evictedKeys,        \* ghost: cache keys the size budget has evicted
  callerClaims,       \* the claims object a caller hands to createS3Credentials
  claimsTenant,       \* the tenant the credential is created for
  persistedClaims     \* the object the persisted claims JSON denotes, once inserted

tenantVars == <<tenants, tenantConfigCache, tenantMutex, pc, tenantId, tenant, result>>
ghostVars == <<queries, returned, lastDelete, failed, rotation, afterRotation>>
eventVars == <<pgQueueEnable, isMultitenant, spc, event, shouldSendRes, queueSends,
               queueJobs, handled, steps, sendResult>>
credVars == <<s3Credentials, tenantS3CredentialsCache, s3CredentialsMutex, published, cpc,
              credCall, pendingInsert, credResult, idSeq, drawn, createCalls>>
credGhostVars == <<countedRows, insertedRows, overlapped, deletedKeys, afterDelete>>
claimsVars == <<callerClaims, claimsTenant, persistedClaims>>
lookupGhostVars == <<credQueries, evictedKeys>>
batchVars == <<bpc, batch, invoked, queueInserts, batchResult>>
pubsubVars == <<lpc, subscribed, lastMessage>>
storeVars == <<credVars, credGhostVars, lookupGhostVars, claimsVars, pubsubVars>>
otherVars == <<storeVars, batchVars>>
vars == <<tenantVars, ghostVars, eventVars, credVars, credGhostVars, lookupGhostVars,
          claimsVars, batchVars, pubsubVars>>

\* ------------------------------------------------------- external contracts
\* encrypt/decrypt of ../auth: opaque, decrypt inverts encrypt.
encrypt(x) == <<"enc", x>>
decrypt(c) == c[2]

\* A service key is a JWT: <<role, secret it was signed with>>.
\* verifyJWT of ../auth: the payload when the signature matches, else it throws.
verifyJWT(token, secret) == IF token[2] = secret THEN Some([role |-> token[1]]) ELSE None

\* A tenant row at version v. `valid` tells whether its service key verifies
\* against its jwt secret; `disabled` is the disable_events column.
TenantRow(t, v, valid, disabled) ==
  [ id |-> t,
    anon_key |-> encrypt(<<"anon", v>>),
    database_url |-> encrypt(<<"db", v>>),
    jwt_secret |-> encrypt(<<"secret", v>>),
    service_key |-> encrypt(<<"service_role", <<"secret", IF valid THEN v ELSE 0>>>>),
    version |-> v,
    disable_events |-> disabled ]

EventNames == {"Webhook", "ObjectAdminDelete"}
DisableEventsValues == {None, Some({"Webhook"})}

\* multitenantKnex('tenants').first().where('id', tenantId)
FirstTenantWhereId(t) == {r \in tenants : r.id = t}

\* ------------------------------------------------------------- keyed mutex
\* createMutexByKey of ../concurrency (spec section 4.1): run(key, fn) runs fn
\* with exclusive ownership of key and releases it when fn returns or throws.
MutexFree(m, k) == m[k] = None
MutexAcquire(m, k, p) == [m EXCEPT ![k] = Some(p)]
MutexRelease(m, k) == [m EXCEPT ![k] = None]

\* ------------------------------------------------------------ cache (Map)
MapHas(m, k) == k \in DOMAIN m
MapSet(m, k, v) == [x \in DOMAIN m \cup {k} |-> IF x = k THEN v ELSE m[x]]
MapDelete(m, k) == [x \in DOMAIN m \ {k} |-> m[x]]

\* The TenantConfig built from a row (tenant.ts lines 140-172).
BuildConfig(row, payload) ==
  [ anonKey |-> decrypt(row.anon_key),
    databaseUrl |-> decrypt(row.database_url),
    jwtSecret |-> decrypt(row.jwt_secret),
    serviceKey |-> decrypt(row.service_key),
    serviceKeyPayload |-> payload,
    migrationVersion |-> row.version,
    disableEvents |-> row.disable_events ]

Ok(v) == [err |-> "", val |-> Some(v)]
Err(e) == [err |-> e, val |-> None]
NoResult == [err |-> "", val |-> None]

\* ------------------------------------------------------------------ ghosts
\* A query counter tells none, one and more than one apart.
Bump(n) == IF n < 2 THEN n + 1 ELSE 2
\* A new epoch for t starts when t is invalidated.
ResetEpoch(t) ==
  /\ queries' = [queries EXCEPT ![t] = 0]
  /\ returned' = [returned EXCEPT ![t] = {}]
  /\ failed' = [failed EXCEPT ![t] = FALSE]
Fail(t) == failed' = [failed EXCEPT ![t] = TRUE]
Deliver(t, cfg) == returned' = [returned EXCEPT ![t] = @ \cup {cfg}]

\* --------------------------------------------------------- getTenantConfig
\* Lines 103-112: the synchronous head of the call.
GetTenantConfigEnter(p, t) ==
  /\ pc[p] \in {"idle", "done"}
  /\ tenantId' = [tenantId EXCEPT ![p] = t]
  /\ afterRotation' = [afterRotation EXCEPT ![p] = t \in Tenants /\ rotation[t] = "rotated"]
  /\ IF t = ""
       THEN /\ pc' = [pc EXCEPT ![p] = "done"]
            /\ result' = [result EXCEPT ![p] = Err("InvalidTenantId")]
            /\ UNCHANGED returned
       ELSE IF MapHas(tenantConfigCache, t)
         THEN /\ pc' = [pc EXCEPT ![p] = "done"]
              /\ result' = [result EXCEPT ![p] = Ok(tenantConfigCache[t])]
              /\ Deliver(t, tenantConfigCache[t])
         ELSE /\ pc' = [pc EXCEPT ![p] = "waitLock"]
              /\ result' = [result EXCEPT ![p] = NoResult]
              /\ UNCHANGED returned
  /\ UNCHANGED <<tenants, tenantConfigCache, tenantMutex, tenant>>
  /\ UNCHANGED <<queries, lastDelete, failed, rotation>>

\* Lines 112-117 with the double check left out (mutant).
LockedCheckNoRecheck(p) ==
  /\ pc[p] = "waitLock"
  /\ MutexFree(tenantMutex, tenantId[p])
  /\ tenantMutex' = MutexAcquire(tenantMutex, tenantId[p], p)
  /\ pc' = [pc EXCEPT ![p] = "querying"]
  /\ queries' = [queries EXCEPT ![tenantId[p]] = Bump(@)]
  /\ UNCHANGED <<result, returned, failed>>
  /\ UNCHANGED <<tenants, tenantConfigCache, tenantId, tenant>>
  /\ UNCHANGED <<lastDelete, rotation, afterRotation>>

\* Lines 112-117: the mutex grants the key, fn re-checks the cache and, on a
\* miss, issues the store query.
LockedCheck(p) ==
  /\ pc[p] = "waitLock"
  /\ MutexFree(tenantMutex, tenantId[p])
  /\ IF MapHas(tenantConfigCache, tenantId[p])
       THEN \* fn returns at once and the key is released again
            /\ pc' = [pc EXCEPT ![p] = "done"]
            /\ result' = [result EXCEPT ![p] = Ok(tenantConfigCache[tenantId[p]])]
            /\ Deliver(tenantId[p], tenantConfigCache[tenantId[p]])
            /\ UNCHANGED <<tenantMutex, queries>>
       ELSE /\ tenantMutex' = MutexAcquire(tenantMutex, tenantId[p], p)
            /\ pc' = [pc EXCEPT ![p] = "querying"]
            /\ queries' = [queries EXCEPT ![tenantId[p]] = Bump(@)]
            /\ UNCHANGED <<result, returned>>
  /\ UNCHANGED <<tenants, tenantConfigCache, tenantId, tenant>>
  /\ UNCHANGED <<lastDelete, failed, rotation, afterRotation>>

\* The store answer with a negative entry cached for a missing row (mutant).
StoreReplyCachesMissing(p) ==
  /\ pc[p] = "querying"
  /\ LET row == FirstTenantWhereId(tenantId[p]) IN
       IF row = None
         THEN /\ pc' = [pc EXCEPT ![p] = "done"]
              /\ result' = [result EXCEPT ![p] = Err("MissingTenantConfig")]
              /\ tenantMutex' = MutexRelease(tenantMutex, tenantId[p])
              /\ tenantConfigCache' = MapSet(tenantConfigCache, tenantId[p], [missing |-> TRUE])
              /\ Fail(tenantId[p])
              /\ UNCHANGED tenant
         ELSE /\ pc' = [pc EXCEPT ![p] = "verifying"]
              /\ tenant' = [tenant EXCEPT ![p] = row]
              /\ UNCHANGED <<result, tenantMutex, failed, tenantConfigCache>>
  /\ UNCHANGED <<tenants, tenantId>>
  /\ UNCHANGED <<queries, returned, lastDelete, rotation, afterRotation>>

\* The store answer with the key kept locked when the callback throws (mutant).
StoreReplyKeepsLock(p) ==
  /\ pc[p] = "querying"
  /\ LET row == FirstTenantWhereId(tenantId[p]) IN
       IF row = None
         THEN /\ pc' = [pc EXCEPT ![p] = "done"]
              /\ result' = [result EXCEPT ![p] = Err("MissingTenantConfig")]
              /\ Fail(tenantId[p])
              /\ UNCHANGED tenant
         ELSE /\ pc' = [pc EXCEPT ![p] = "verifying"]
              /\ tenant' = [tenant EXCEPT ![p] = row]
              /\ UNCHANGED <<result, failed>>
  /\ UNCHANGED <<tenants, tenantConfigCache, tenantMutex, tenantId>>
  /\ UNCHANGED <<queries, returned, lastDelete, rotation, afterRotation>>

\* Lines 117-143: the store answers; a missing row throws MissingTenantConfig,
\* otherwise the secrets are decrypted and verifyJWT is awaited.
StoreReply(p) ==
  /\ pc[p] = "querying"
  /\ LET row == FirstTenantWhereId(tenantId[p]) IN
       IF row = None
         THEN /\ pc' = [pc EXCEPT ![p] = "done"]
              /\ result' = [result EXCEPT ![p] = Err("MissingTenantConfig")]
              /\ tenantMutex' = MutexRelease(tenantMutex, tenantId[p])
              /\ Fail(tenantId[p])
              /\ UNCHANGED tenant
         ELSE /\ pc' = [pc EXCEPT ![p] = "verifying"]
              /\ tenant' = [tenant EXCEPT ![p] = row]
              /\ UNCHANGED <<result, tenantMutex, failed>>
  /\ UNCHANGED <<tenants, tenantConfigCache, tenantId>>
  /\ UNCHANGED <<queries, returned, lastDelete, rotation, afterRotation>>

\* Line 117: the store query rejects (store unreachable); the error leaves the
\* callback and getTenantConfig throws it on.
StoreError(p) ==
  /\ pc[p] = "querying"
  /\ pc' = [pc EXCEPT ![p] = "done"]
  /\ result' = [result EXCEPT ![p] = Err("StoreError")]
  /\ tenantMutex' = MutexRelease(tenantMutex, tenantId[p])
  /\ Fail(tenantId[p])
  /\ UNCHANGED <<tenants, tenantConfigCache, tenantId, tenant>>
  /\ UNCHANGED <<queries, returned, lastDelete, rotation, afterRotation>>

\* Lines 143-176: verifyJWT settles; the config is built, cached and returned.
VerifyReply(p) ==
  /\ pc[p] = "verifying"
  /\ LET row == TheOne(tenant[p])
         serviceKeyPayload == verifyJWT(decrypt(row.service_key), decrypt(row.jwt_secret))
     IN
       IF serviceKeyPayload = None
         THEN /\ result' = [result EXCEPT ![p] = Err("InvalidJWT")]
              /\ Fail(tenantId[p])
              /\ UNCHANGED <<tenantConfigCache, returned>>
         ELSE LET config == BuildConfig(row, TheOne(serviceKeyPayload)) IN
              /\ tenantConfigCache' = MapSet(tenantConfigCache, tenantId[p], config)
              /\ result' = [result EXCEPT ![p] = Ok(config)]
              /\ Deliver(tenantId[p], config)
              /\ UNCHANGED failed
  /\ pc' = [pc EXCEPT ![p] = "done"]
  /\ tenantMutex' = MutexRelease(tenantMutex, tenantId[p])
  /\ tenant' = [tenant EXCEPT ![p] = None]
  /\ UNCHANGED <<tenants, tenantId>>
  /\ UNCHANGED <<queries, lastDelete, rotation, afterRotation>>

\* Ghost bookkeeping of an invalidation of t.
NoteDelete(t) ==
  /\ lastDelete' = [lastDelete EXCEPT ![t] =
                      IF MapHas(tenantConfigCache, t) THEN "present" ELSE "absent"]
  /\ rotation' = [rotation EXCEPT ![t] = IF @ = "changed" THEN "rotated" ELSE @]
  /\ ResetEpoch(t)

\* deleteTenantConfig that leaves the entry in place (mutant).
DeleteTenantConfigKeeps(t) ==
  /\ NoteDelete(t)
  /\ UNCHANGED <<tenantVars, afterRotation>>

\* Lines 94-96.
DeleteTenantConfig(t) ==
  /\ tenantConfigCache' = MapDelete(tenantConfigCache, t)
  /\ NoteDelete(t)
  /\ UNCHANGED <<tenants, tenantMutex, pc, tenantId, tenant, result, afterRotation>>

\* -------------------------------------------------------------- environment
\* The admin API rewrites a tenant row (for instance rotates its secrets).
UpdateTenantRow(t, valid, disabled) ==
  \E old \in FirstTenantWhereId(t) :
    /\ old.version < MaxRowVersion
    /\ tenants' = (tenants \ {old}) \cup {TenantRow(t, old.version + 1, valid, disabled)}
    /\ rotation' = [rotation EXCEPT ![t] = "changed"]
    /\ afterRotation' = [p \in Procs |-> afterRotation[p] /\ tenantId[p] # t]
    /\ UNCHANGED <<tenantConfigCache, tenantMutex, pc, tenantId, tenant, result>>
    /\ UNCHANGED <<queries, returned, lastDelete, failed>>

\* ------------------------------------------------------------------ events
\* getConfig().region
region == "local"

\* An object is a function from its keys; {...a, ...b} lets b override a.
Spread(a, b) == b @@ a

\* The static members of an Event subclass: the base class (event.ts 45-74) has
\* queueName '' and allowSync true; subclasses override them.
EventTypes ==
  { [ name |-> n,
      queueName |-> q,
      allowSync |-> a,
      version |-> "v1",
      queueOptions |-> IF n = "Webhook" THEN Some([retryLimit |-> 3]) ELSE None ] :
      n \in EventNames, q \in {"", "queue"}, a \in BOOLEAN }

\* BasePayload (event.ts 8-17): tenant is required, the rest optional.
Payloads ==
  { Spread(Spread([tenant |-> [ref |-> t, host |-> "host"]], v), at) :
      t \in Tenants,
      v \in {<<>>, ("$version" :> "v0")},
      at \in {<<>>, [scheduleAt |-> 7]} }

NoEvent == [type |-> [name |-> "", queueName |-> "", allowSync |-> TRUE, version |-> "",
                       queueOptions |-> None],
            payload |-> <<>>]

\* `payload.key` of a JavaScript object: undefined when the key is not there.
Field(obj, key) == IF key \in DOMAIN obj THEN Some(obj[key]) ELSE None

\* getQueueName that hands back the empty name instead of throwing (mutant).
getQueueNameNeverThrows(type) == FALSE

\* Lines 56-62: getQueueName throws when queueName is unset.
QueueNameUnset(type) == type.queueName = ""

\* Lines 148-158, once getTenantConfig returned `config`: `tenant.disableEvents || []`
\* does not include the event name.
shouldSendIgnoresTenant(type, config) == TRUE
shouldSend(type, config) ==
  LET disabledEvents == IF config.disableEvents = None THEN {} ELSE TheOne(config.disableEvents)
  IN  type.name \notin disabledEvents

\* Lines 202-206, 174-178, 231-235: { region, ...this.payload, $version: constructor.version }
JobData(type, payload) ==
  Spread(Spread([region |-> region], payload), ("$version" :> type.version))

\* Lines 190-197: the send options, with startAfter set from scheduleAt.
SendOptions(type, payload) ==
  IF Field(payload, "scheduleAt") # None
    THEN Some(Spread(IF type.queueOptions = None THEN <<>> ELSE TheOne(type.queueOptions),
                     [startAfter |-> payload.scheduleAt]))
    ELSE type.queueOptions

\* Lines 171-179 and 228-236: the job handed to handle() when it runs inline.
SyncJob(type, payload) == [id |-> "__sync", name |-> type.queueName, data |-> JobData(type, payload)]

\* The outcomes of the class's handle(): a subclass's handler returns its
\* result or throws; the base class's throws 'not implemented' (lines 144-146).
HandlerOutcomes == {Ok(<<"handled">>), Err("HandlerError")}

\* handle(job) is called and settles with `outcome`, which send() returns.
Handle(s, job, outcome, done) ==
  /\ handled' = [handled EXCEPT ![s] = Append(@, [job |-> job, outcome |-> outcome])]
  /\ steps' = [steps EXCEPT ![s] = Append(done, "handle")]
  /\ sendResult' = [sendResult EXCEPT ![s] = outcome]

\* Lines 125-131: the static send stamps the version on a payload without one.
StaticSendPayload(type, payload) ==
  IF Field(payload, "$version") = None
    THEN Spread(payload, ("$version" :> type.version))
    ELSE payload

\* Lines 160-163: send() starts and awaits shouldSend, which in multi-tenant
\* mode calls getTenantConfig(payload.tenant.ref) (lines 149-151).
SendEnter(s, type, payload) ==
  /\ spc[s] = "idle"
  /\ spc' = [spc EXCEPT ![s] = "shouldSend"]
  /\ event' = [event EXCEPT ![s] = [type |-> type, payload |-> payload]]
  /\ shouldSendRes' = [shouldSendRes EXCEPT ![s] = "pending"]
  /\ queueSends' = [queueSends EXCEPT ![s] = <<>>]
  /\ queueJobs' = [queueJobs EXCEPT ![s] = <<>>]
  /\ handled' = [handled EXCEPT ![s] = <<>>]
  /\ steps' = [steps EXCEPT ![s] = <<>>]
  /\ sendResult' = [sendResult EXCEPT ![s] = NoResult]
  /\ UNCHANGED <<pgQueueEnable, isMultitenant>>
  /\ IF isMultitenant
       THEN GetTenantConfigEnter(SenderOf(s), payload.tenant.ref)
       ELSE UNCHANGED <<tenantVars, ghostVars>>

\* Dispatch that runs the handler inline whatever allowSync says (mutant).
DispatchIgnoresAllowSync(s, type, payload, done) ==
  IF ~pgQueueEnable
    THEN /\ IF QueueNameUnset(type)
              THEN /\ sendResult' = [sendResult EXCEPT ![s] = Err("QueueNameUnset")]
                   /\ steps' = [steps EXCEPT ![s] = done]
                   /\ UNCHANGED handled
              ELSE \E outcome \in HandlerOutcomes :
                     Handle(s, SyncJob(type, payload), outcome, done)
         /\ spc' = [spc EXCEPT ![s] = "done"]
         /\ UNCHANGED queueSends
    ELSE IF QueueNameUnset(type)
           THEN /\ sendResult' = [sendResult EXCEPT ![s] = Err("QueueNameUnset")]
                /\ spc' = [spc EXCEPT ![s] = "done"]
                /\ steps' = [steps EXCEPT ![s] = done]
                /\ UNCHANGED <<queueSends, handled>>
           ELSE /\ queueSends' = [queueSends EXCEPT ![s] =
                                    Append(@, [name |-> type.queueName,
                                               data |-> JobData(type, payload),
                                               options |-> SendOptions(type, payload)])]
                /\ steps' = [steps EXCEPT ![s] = Append(done, "queue.send")]
                /\ spc' = [spc EXCEPT ![s] = "enqueueing"]
                /\ UNCHANGED <<handled, sendResult>>

\* Lines 169-208, once shouldSend is true: run inline or skip when the queue is
\* disabled, otherwise call Queue.send.
Dispatch(s, type, payload, done) ==
  IF ~pgQueueEnable
    THEN /\ IF type.allowSync
              THEN IF QueueNameUnset(type)
                     THEN /\ sendResult' = [sendResult EXCEPT ![s] = Err("QueueNameUnset")]
                          /\ steps' = [steps EXCEPT ![s] = done]
                          /\ UNCHANGED handled
                     ELSE \E outcome \in HandlerOutcomes :
                            Handle(s, SyncJob(type, payload), outcome, done)
              ELSE /\ sendResult' = [sendResult EXCEPT ![s] = NoResult]
                   /\ steps' = [steps EXCEPT ![s] = done]
                   /\ UNCHANGED handled
         /\ spc' = [spc EXCEPT ![s] = "done"]
         /\ UNCHANGED queueSends
    ELSE IF QueueNameUnset(type)
           THEN \* getQueueName throws inside try, again in catch and in finally
                /\ sendResult' = [sendResult EXCEPT ![s] = Err("QueueNameUnset")]
                /\ spc' = [spc EXCEPT ![s] = "done"]
                /\ steps' = [steps EXCEPT ![s] = done]
                /\ UNCHANGED <<queueSends, handled>>
           ELSE /\ queueSends' = [queueSends EXCEPT ![s] =
                                    Append(@, [name |-> type.queueName,
                                               data |-> JobData(type, payload),
                                               options |-> SendOptions(type, payload)])]
                /\ steps' = [steps EXCEPT ![s] = Append(done, "queue.send")]
                /\ spc' = [spc EXCEPT ![s] = "enqueueing"]
                /\ UNCHANGED <<handled, sendResult>>

\* Lines 163-208: shouldSend settles and send() runs on to its first await or return.
ShouldSendReply(s) ==
  /\ spc[s] = "shouldSend"
  /\ isMultitenant => pc[SenderOf(s)] = "done"
  /\ LET threw == isMultitenant /\ result[SenderOf(s)].err # ""
         should == IF isMultitenant
                     THEN shouldSend(event[s].type, TheOne(result[SenderOf(s)].val))
                     ELSE TRUE
     IN
       IF threw
         THEN /\ shouldSendRes' = [shouldSendRes EXCEPT ![s] = "threw"]
              /\ sendResult' = [sendResult EXCEPT ![s] = Err(result[SenderOf(s)].err)]
              /\ spc' = [spc EXCEPT ![s] = "done"]
              /\ UNCHANGED <<queueSends, handled, steps>>
         ELSE IF ~should
           THEN /\ shouldSendRes' = [shouldSendRes EXCEPT ![s] = "false"]
                /\ sendResult' = [sendResult EXCEPT ![s] = NoResult]
                /\ spc' = [spc EXCEPT ![s] = "done"]
                /\ steps' = [steps EXCEPT ![s] = Append(@, "shouldSend")]
                /\ UNCHANGED <<queueSends, handled>>
           ELSE /\ shouldSendRes' = [shouldSendRes EXCEPT ![s] = "true"]
                /\ Dispatch(s, event[s].type, event[s].payload, Append(steps[s], "shouldSend"))
  /\ UNCHANGED <<pgQueueEnable, isMultitenant, event, queueJobs>>
  /\ UNCHANGED <<tenantVars, ghostVars>>

\* The caller takes what send() settled with.
SendReturn(s) ==
  /\ spc[s] = "done"
  /\ spc' = [spc EXCEPT ![s] = "idle"]
  /\ event' = [event EXCEPT ![s] = NoEvent]
  /\ shouldSendRes' = [shouldSendRes EXCEPT ![s] = "pending"]
  /\ queueSends' = [queueSends EXCEPT ![s] = <<>>]
  /\ queueJobs' = [queueJobs EXCEPT ![s] = <<>>]
  /\ handled' = [handled EXCEPT ![s] = <<>>]
  /\ steps' = [steps EXCEPT ![s] = <<>>]
  /\ sendResult' = [sendResult EXCEPT ![s] = NoResult]
  /\ UNCHANGED <<pgQueueEnable, isMultitenant>>
  /\ UNCHANGED <<tenantVars, ghostVars>>

\* Queue.send of ./queue (spec section 6): send(name, data, options) -> jobId.
QueueAccept(jobs, job) == Append(jobs, job)
JobId(jobs) == <<"job", Len(jobs)>>

\* Queue.send settles and an enqueue error is thrown on to the caller (mutant).
QueueSendReplyRethrows(s) ==
  /\ spc[s] = "enqueueing"
  /\ \/ /\ queueJobs' = [queueJobs EXCEPT ![s] = QueueAccept(@, queueSends[s][Len(queueSends[s])])]
        /\ sendResult' = [sendResult EXCEPT ![s] = Ok(JobId(queueJobs'[s]))]
     \/ /\ sendResult' = [sendResult EXCEPT ![s] = Err("QueueSendError")]
        /\ UNCHANGED queueJobs
  /\ spc' = [spc EXCEPT ![s] = "done"]
  /\ UNCHANGED <<handled, steps>>
  /\ UNCHANGED <<pgQueueEnable, isMultitenant, event, shouldSendRes, queueSends>>
  /\ UNCHANGED <<tenantVars, ghostVars>>

\* Queue.send settles and the handler runs inline even when the job was accepted
\* (mutant).
QueueSendReplyAlsoHandles(s) ==
  /\ spc[s] = "enqueueing"
  /\ \E outcome \in HandlerOutcomes :
       Handle(s, SyncJob(event[s].type, event[s].payload), outcome, steps[s])
  /\ \/ queueJobs' = [queueJobs EXCEPT ![s] = QueueAccept(@, queueSends[s][Len(queueSends[s])])]
     \/ UNCHANGED queueJobs
  /\ spc' = [spc EXCEPT ![s] = "done"]
  /\ UNCHANGED <<pgQueueEnable, isMultitenant, event, shouldSendRes, queueSends>>
  /\ UNCHANGED <<tenantVars, ghostVars>>

\* Lines 199-242: Queue.send settles. On success send() returns the job id; on
\* an error the catch block runs the handler inline and returns its result.
QueueSendReply(s) ==
  /\ spc[s] = "enqueueing"
  /\ \/ /\ queueJobs' = [queueJobs EXCEPT ![s] = QueueAccept(@, queueSends[s][Len(queueSends[s])])]
        /\ sendResult' = [sendResult EXCEPT ![s] = Ok(JobId(queueJobs'[s]))]
        /\ UNCHANGED <<handled, steps>>
     \/ /\ \E outcome \in HandlerOutcomes :
             Handle(s, SyncJob(event[s].type, event[s].payload), outcome, steps[s])
        /\ UNCHANGED queueJobs
  /\ spc' = [spc EXCEPT ![s] = "done"]
  /\ UNCHANGED <<pgQueueEnable, isMultitenant, event, shouldSendRes, queueSends>>
  /\ UNCHANGED <<tenantVars, ghostVars>>

\* ------------------------------------------------------- slow retry queue
\* Lines 72-74: the base class declares no slow-retry policy; a subclass returns
\* its SlowRetryQueueOptions (lines 19-22). Here the Webhook type declares one.
withSlowRetryQueue(type) ==
  IF type.name = "Webhook" THEN Some([retryLimit |-> 10, retryDelay |-> 5]) ELSE None

\* Lines 76-82.
getSlowRetryQueueName(type) == type.queueName \o "-slow"

\* Line 254: constructor.getQueueOptions(this.payload) || {}
QueueOptionsOrEmpty(type) == IF type.queueOptions = None THEN <<>> ELSE TheOne(type.queueOptions)

\* Lines 262-267: the options of the slow-retry job; later spreads override.
SlowRetryOptions(type, slowRetryQueue) ==
  Spread(Spread([retryBackoff |-> TRUE, startAfter |-> 60 * 60 * 30],
                QueueOptionsOrEmpty(type)),
         slowRetryQueue)

\* sendSlowRetryQueue that does not look at pgQueueEnable (mutant).
SendSlowRetryQueueEnterIgnoresDisabled(s, type, payload) ==
  /\ spc[s] = "idle"
  /\ event' = [event EXCEPT ![s] = [type |-> type, payload |-> payload]]
  /\ IF withSlowRetryQueue(type) = None
       THEN /\ spc' = [spc EXCEPT ![s] = "done"]
            /\ UNCHANGED <<queueSends, steps, sendResult>>
       ELSE IF QueueNameUnset(type)
         THEN /\ spc' = [spc EXCEPT ![s] = "done"]
              /\ sendResult' = [sendResult EXCEPT ![s] = Err("QueueNameUnset")]
              /\ UNCHANGED <<queueSends, steps>>
         ELSE /\ spc' = [spc EXCEPT ![s] = "slowEnqueueing"]
              /\ queueSends' = [queueSends EXCEPT ![s] =
                                  Append(@, [name |-> getSlowRetryQueueName(type),
                                             data |-> JobData(type, payload),
                                             options |-> Some(SlowRetryOptions(type,
                                                           TheOne(withSlowRetryQueue(type))))])]
              /\ steps' = [steps EXCEPT ![s] = Append(@, "queue.send")]
              /\ UNCHANGED sendResult
  /\ UNCHANGED <<pgQueueEnable, isMultitenant, shouldSendRes, queueJobs, handled>>
  /\ UNCHANGED <<tenantVars, ghostVars>>

\* Lines 244-268: sendSlowRetryQueue() up to its await of Queue.send. It returns
\* at once when the queue is disabled or the type declares no policy;
\* getSlowRetryQueueName throws when queueName is unset.
SendSlowRetryQueueEnter(s, type, payload) ==
  /\ spc[s] = "idle"
  /\ event' = [event EXCEPT ![s] = [type |-> type, payload |-> payload]]
  /\ IF ~pgQueueEnable \/ withSlowRetryQueue(type) = None
       THEN /\ spc' = [spc EXCEPT ![s] = "done"]
            /\ UNCHANGED <<queueSends, steps, sendResult>>
       ELSE IF QueueNameUnset(type)
         THEN /\ spc' = [spc EXCEPT ![s] = "done"]
              /\ sendResult' = [sendResult EXCEPT ![s] = Err("QueueNameUnset")]
              /\ UNCHANGED <<queueSends, steps>>
         ELSE /\ spc' = [spc EXCEPT ![s] = "slowEnqueueing"]
              /\ queueSends' = [queueSends EXCEPT ![s] =
                                  Append(@, [name |-> getSlowRetryQueueName(type),
                                             data |-> JobData(type, payload),
                                             options |-> Some(SlowRetryOptions(type,
                                                           TheOne(withSlowRetryQueue(type))))])]
              /\ steps' = [steps EXCEPT ![s] = Append(@, "queue.send")]
              /\ UNCHANGED sendResult
  /\ UNCHANGED <<pgQueueEnable, isMultitenant, shouldSendRes, queueJobs, handled>>
  /\ UNCHANGED <<tenantVars, ghostVars>>

\* Lines 256-278: Queue.send settles; sendSlowRetryQueue returns the job id or
\* rejects with the enqueue error (there is no catch).
SlowQueueSendReply(s) ==
  /\ spc[s] = "slowEnqueueing"
  /\ \/ /\ queueJobs' = [queueJobs EXCEPT ![s] = QueueAccept(@, queueSends[s][Len(queueSends[s])])]
        /\ sendResult' = [sendResult EXCEPT ![s] = Ok(JobId(queueJobs'[s]))]
     \/ /\ sendResult' = [sendResult EXCEPT ![s] = Err("QueueSendError")]
        /\ UNCHANGED queueJobs
  /\ spc' = [spc EXCEPT ![s] = "done"]
  /\ UNCHANGED <<pgQueueEnable, isMultitenant, event, shouldSendRes, queueSends, handled, steps>>
  /\ UNCHANGED <<tenantVars, ghostVars>>

\* ------------------------------------------------------------- batchSend
NoBatch == [type |-> NoEvent.type, messages |-> <<>>]

\* Lines 106-114: the options of one job of the batch, startAfter set from the
\* message's scheduleAt.
BatchOptions(type, payload) ==
  IF Field(payload, "scheduleAt") # None
    THEN Spread(QueueOptionsOrEmpty(type), [startAfter |-> payload.scheduleAt])
    ELSE QueueOptionsOrEmpty(type)

\* The job of a message without the startAfter of its scheduleAt (mutant).
BatchJobUnscheduled(type, payload) ==
  Spread(Spread(QueueOptionsOrEmpty(type), [name |-> type.queueName]),
         [data |-> StaticSendPayload(type, payload)])

\* Lines 105-121: { ...sendOptions, name: this.getQueueName(), data: message.payload },
\* the payload stamped with the class's version when it carries none.
BatchJob(type, payload) ==
  Spread(Spread(BatchOptions(type, payload), [name |-> type.queueName]),
         [data |-> StaticSendPayload(type, payload)])

\* Lines 92-123: batchSend up to its first send(), to its return or to its call
\* of Queue.insert. getQueueName throws inside the map for the first message.
BatchSendEnter(type, messages) ==
  /\ bpc = "idle"
  /\ \A s \in Sends : spc[s] = "idle"
  /\ invoked' = <<>>
  /\ IF ~pgQueueEnable
       THEN /\ batch' = [type |-> type, messages |-> messages]
            /\ IF type.allowSync
                 THEN bpc' = IF messages = <<>> THEN "awaiting" ELSE "mapping"
                 ELSE bpc' = "done"
            /\ UNCHANGED <<queueInserts, batchResult>>
       ELSE IF messages # <<>> /\ QueueNameUnset(type)
         THEN /\ batch' = [type |-> type,
                           messages |-> [messages EXCEPT ![1] = StaticSendPayload(type, @)]]
              /\ bpc' = "done"
              /\ batchResult' = Err("QueueNameUnset")
              /\ UNCHANGED queueInserts
         ELSE /\ batch' = [type |-> type,
                           messages |-> [i \in 1..Len(messages) |->
                                           StaticSendPayload(type, messages[i])]]
              /\ queueInserts' = Append(queueInserts,
                                        [i \in 1..Len(messages) |-> BatchJob(type, messages[i])])
              /\ bpc' = "inserting"
              /\ UNCHANGED batchResult
  /\ UNCHANGED <<tenantVars, ghostVars, eventVars>>

\* Line 95: the map calls send() on the next message; send() runs to its first await.
BatchSendInvoke ==
  /\ bpc = "mapping"
  /\ LET i == Len(invoked) + 1 IN
       /\ SendEnter(i, batch.type, batch.messages[i])
       /\ invoked' = Append(invoked, i)
       /\ bpc' = IF i = Len(batch.messages) THEN "awaiting" ELSE "mapping"
  /\ UNCHANGED <<batch, queueInserts, batchResult>>

\* Line 95: Promise.all settles: it rejects with the error of a send() that
\* threw, and resolves once every send() has returned.
BatchSendSettle ==
  /\ bpc = "awaiting"
  /\ \/ \E s \in 1..Len(batch.messages) :
          /\ spc[s] = "done" /\ sendResult[s].err # ""
          /\ batchResult' = Err(sendResult[s].err)
     \/ /\ \A s \in 1..Len(batch.messages) : spc[s] = "done" /\ sendResult[s].err = ""
        /\ batchResult' = Ok(<<"results">>)
  /\ bpc' = "done"
  /\ UNCHANGED <<batch, invoked, queueInserts>>
  /\ UNCHANGED <<tenantVars, ghostVars, eventVars>>

\* Line 104: Queue.insert of ./queue settles.
BatchInsertReply ==
  /\ bpc = "inserting"
  /\ batchResult' \in {Ok(<<"inserted">>), Err("QueueInsertError")}
  /\ bpc' = "done"
  /\ UNCHANGED <<batch, invoked, queueInserts>>
  /\ UNCHANGED <<tenantVars, ghostVars, eventVars>>

\* The caller takes what batchSend settled with, every send() having settled.
BatchSendReturn ==
  /\ bpc = "done"
  /\ \A s \in Sends : spc[s] \in {"idle", "done"}
  /\ bpc' = "idle"
  /\ batch' = NoBatch
  /\ invoked' = <<>>
  /\ queueInserts' = <<>>
  /\ batchResult' = NoResult
  /\ spc' = [s \in Sends |-> "idle"]
  /\ event' = [s \in Sends |-> NoEvent]
  /\ shouldSendRes' = [s \in Sends |-> "pending"]
  /\ queueSends' = [s \in Sends |-> <<>>]
  /\ queueJobs' = [s \in Sends |-> <<>>]
  /\ handled' = [s \in Sends |-> <<>>]
  /\ steps' = [s \in Sends |-> <<>>]
  /\ sendResult' = [s \in Sends |-> NoResult]
  /\ UNCHANGED <<pgQueueEnable, isMultitenant>>
  /\ UNCHANGED <<tenantVars, ghostVars>>

\* ------------------------------------------------- credential claims
\* getConfig().dbServiceRole
dbServiceRole == "service_role"
\* The JavaScript values undefined and null; every other claim value is a string.
Undefined == "<undefined>"
Null == "<null>"

\* obj[key]: reading a property the object lacks gives undefined.
Get(obj, key) == IF key \in DOMAIN obj THEN obj[key] ELSE Undefined
\* a ?? b
Coalesce(a, b) == IF a \in {Null, Undefined} THEN b ELSE a

\* delete claims.issuer only.
StripIssuerOnly(claims) == [k \in DOMAIN claims \ {"issuer"} |-> claims[k]]
\* delete claims.iss; delete claims.issuer; delete claims.exp; delete claims.iat
StripReserved(claims) == [k \in DOMAIN claims \ {"iss", "issuer", "exp", "iat"} |-> claims[k]]

\* `supabase.storage.${tenantId}`
Issuer(t) == "supabase.storage." \o t

\* data.claims after the deletes and the rebuild; `claims` is the optional
\* data.claims the caller passed.
BuildClaims(t, claims) ==
  LET stripped == IF claims = None THEN None ELSE Some(StripReserved(TheOne(claims)))
      base == IF stripped = None THEN <<>> ELSE TheOne(stripped)
      role == IF stripped = None THEN Undefined ELSE Get(TheOne(stripped), "role")
      sub == IF stripped = None THEN Undefined ELSE Get(TheOne(stripped), "sub")
  IN Spread(base, [role |-> Coalesce(role, dbServiceRole), issuer |-> Issuer(t), sub |-> sub])

\* The object a JSON.stringify text denotes: properties whose value is undefined
\* are left out, null is kept.
JSONStringify(obj) == [k \in {x \in DOMAIN obj : obj[x] # Undefined} |-> obj[k]]

\* The claims column of the inserted row.
PersistedClaims(t, claims) == JSONStringify(BuildClaims(t, claims))

\* The object whose properties are the chosen ones of `choice`.
ObjectOf(choice) == [k \in {x \in DOMAIN choice : choice[x] # None} |-> TheOne(choice[k])]

\* Claims objects callers pass: every property present or not; role may be null,
\* the custom claim may be a string, null or undefined.
ClaimsObjects ==
  { ObjectOf([role |-> r, sub |-> s, iss |-> i, issuer |-> u, exp |-> e, iat |-> a,
              custom |-> c]) :
      r \in {None, Some("authenticated"), Some(Null)},
      s \in {None, Some("user-1")},
      i \in {None, Some("evil.iss")},
      u \in {None, Some("evil.issuer")},
      e \in {None, Some("9999999999")},
      a \in {None, Some("1")},
      c \in {None, Some("x"), Some(Null), Some(Undefined)} }
\* data.claims is optional.
ClaimsArguments == {None} \cup {Some(o) : o \in ClaimsObjects}

\* createS3Credentials up to the insert, as far as the claims go.
PersistClaims ==
  /\ persistedClaims = None
  /\ persistedClaims' = Some(PersistedClaims(claimsTenant, callerClaims))
  /\ UNCHANGED <<callerClaims, claimsTenant>>

\* No createS3Credentials call made yet.
InitClaimsIdle ==
  /\ callerClaims = None
  /\ claimsTenant = "t1"
  /\ persistedClaims = None

\* ------------------------------------------------------- S3 credentials
\* The limit createS3Credentials enforces per tenant.
MaxCredentials == 50
\* Concurrent clients calling createS3Credentials.
NumClients == 2
\* createS3Credentials calls made in a run.
MaxCreateCalls == 3

Creators == {"client" \o ToString(i) : i \in 1..NumClients}
\* The client calling getS3CredentialsByAccessKey.
Reader == "reader"
Clients == Creators \cup {Reader}
TENANTS_S3_CREDENTIALS_UPDATE_CHANNEL == "tenants_s3_credentials_update"

\* crypto.randomBytes(..).toString('hex'): the n-th draw gives a pair of fresh keys.
AccessKey(n) == "ak" \o ToString(n)
SecretKey(n) == "sk" \o ToString(n)
\* `${tenantId}:${accessKey}`
CacheKey(t, a) == t \o ":" \o a

\* Rows the table holds at start, all of tenant t1: one short of the limit.
InitialCredentials == MaxCredentials - 1
\* Access keys looked up: a stored one and the first one a create draws.
LookupKeys == {AccessKey(1), AccessKey(InitialCredentials + 1)}
\* Credential ids deleted: a stored one and the first one an insert assigns.
DeleteIds == {1, InitialCredentials + 1}
\* Access keys looked up where the cache fills up: three stored ones and one
\* that no row has.
ProbeKeys == {AccessKey(1), AccessKey(2), AccessKey(3), AccessKey(0)}
CacheKeys == {CacheKey(t, a) : t \in Tenants, a \in LookupKeys \cup ProbeKeys}
\* data.claims of the createS3Credentials calls (SpecClaims covers every claims
\* object).
CreateClaims == {Some([iss |-> "evil.iss", custom |-> "x"])}

\* A row of tenants_s3_credentials as createS3Credentials inserts it.
CredentialRow(id, t, n, claims) ==
  [id |-> id, tenant_id |-> t, description |-> "key", access_key |-> AccessKey(n),
   secret_key |-> encrypt(SecretKey(n)), claims |-> PersistedClaims(t, claims)]

NoCall == [op |-> "", tenantId |-> "", accessKey |-> "", claims |-> None]

\* .where('tenant_id', tenantId)
S3CredentialsOf(t) == {r \in s3Credentials : r.tenant_id = t}
\* countS3Credentials: the store's count of the tenant's rows.
countS3Credentials(t) == Cardinality(S3CredentialsOf(t))

\* existingCount > 50
LimitExceeded(existingCount) == existingCount > MaxCredentials
\* existingCount >= 50
LimitReached(existingCount) == existingCount >= MaxCredentials

\* ghost: the createS3Credentials calls for t between their first await and
\* their return.
CreatesInFlight(t) ==
  {q \in Clients : cpc[q] \in {"counting", "inserting"} /\ credCall[q].tenantId = t}

\* ghost: a client starts a new call.
ResetCall(p, key) ==
  /\ countedRows' = [countedRows EXCEPT ![p] = 0]
  /\ insertedRows' = [insertedRows EXCEPT ![p] = 0]
  /\ afterDelete' = [afterDelete EXCEPT ![p] = key \in deletedKeys]
  /\ pendingInsert' = [pendingInsert EXCEPT ![p] = None]

\* createS3Credentials(t, {description, claims}) up to `await countS3Credentials`.
CreateS3CredentialsEnter(p, t, claims) ==
  /\ cpc[p] \in {"idle", "done"}
  /\ createCalls < MaxCreateCalls
  /\ createCalls' = createCalls + 1
  /\ cpc' = [cpc EXCEPT ![p] = "counting"]
  /\ credCall' = [credCall EXCEPT ![p] =
                    [op |-> "create", tenantId |-> t, accessKey |-> "", claims |-> claims]]
  /\ credResult' = [credResult EXCEPT ![p] = NoResult]
  /\ ResetCall(p, "")
  /\ overlapped' = [q \in Clients |->
                      IF q = p THEN CreatesInFlight(t) # {}
                      ELSE overlapped[q] \/ q \in CreatesInFlight(t)]
  /\ UNCHANGED <<s3Credentials, tenantS3CredentialsCache, s3CredentialsMutex, published,
                 idSeq, drawn, deletedKeys, lookupGhostVars>>

\* The count returns: the limit check, the key pair, the claims, then
\* `await ...insert(...)`.
CountReply(p) ==
  /\ cpc[p] = "counting"
  /\ LET t == credCall[p].tenantId
         existingCount == countS3Credentials(t)
     IN /\ countedRows' = [countedRows EXCEPT ![p] = Cardinality(S3CredentialsOf(t))]
        /\ IF LimitReached(existingCount)
           THEN /\ cpc' = [cpc EXCEPT ![p] = "done"]
                /\ credResult' = [credResult EXCEPT ![p] = Err("MaximumCredentialsLimit")]
                /\ UNCHANGED <<drawn, pendingInsert>>
           ELSE /\ cpc' = [cpc EXCEPT ![p] = "inserting"]
                /\ drawn' = drawn + 1
                /\ pendingInsert' = [pendingInsert EXCEPT ![p] =
                     Some([row |-> CredentialRow(0, t, drawn + 1, credCall[p].claims),
                           secretAccessKey |-> SecretKey(drawn + 1)])]
                /\ UNCHANGED credResult
  /\ UNCHANGED <<s3Credentials, tenantS3CredentialsCache, s3CredentialsMutex, published,
                 credCall, idSeq, createCalls, insertedRows, overlapped, deletedKeys,
                 afterDelete, lookupGhostVars>>

\* The insert returns the new row's id; createS3Credentials returns the id and
\* the plaintext key pair.
InsertReply(p) ==
  /\ cpc[p] = "inserting"
  /\ LET pending == TheOne(pendingInsert[p])
         row == [pending.row EXCEPT !.id = idSeq + 1]
     IN /\ s3Credentials' = s3Credentials \cup {row}
        /\ credResult' = [credResult EXCEPT ![p] =
             Ok([id |-> row.id, access_key |-> row.access_key,
                 secret_key |-> pending.secretAccessKey])]
  /\ idSeq' = idSeq + 1
  /\ insertedRows' = [insertedRows EXCEPT ![p] = @ + 1]
  /\ cpc' = [cpc EXCEPT ![p] = "done"]
  /\ UNCHANGED <<tenantS3CredentialsCache, s3CredentialsMutex, published, credCall,
                 pendingInsert, drawn, createCalls, countedRows, overlapped, deletedKeys,
                 afterDelete, lookupGhostVars>>

\* ------------------------------------------------------ cache (LRUCache)
\* lru-cache, as configured at tenant.ts 63-69 (spec section 3, CacheEntry): the
\* entries in order of last use, least recently used first, each with the size
\* sizeCalculation gave it; the sizes sum to at most maxSize.
\* A budget ten times as large (mutant).
maxSizeTenfold == 1024 * 1024 * 500
maxSize == 1024 * 1024 * 50
Megabyte == 1024 * 1024

\* objectSizeOf(value): a credential whose claims carry a blob weighs the blob's
\* megabytes, any other one a kilobyte.
BlobMegabytes == [blob20 |-> 20, blob25 |-> 25, blob30 |-> 30]
objectSizeOf(value) ==
  LET custom == Get(value.claims, "custom") IN
  IF custom \in DOMAIN BlobMegabytes THEN BlobMegabytes[custom] * Megabyte ELSE 1024

LruHas(c, k) == \E i \in 1..Len(c) : c[i].key = k
LruEntry(c, k) == c[CHOOSE i \in 1..Len(c) : c[i].key = k]
LruWithout(c, k) == SelectSeq(c, LAMBDA e : e.key # k)
LruKeys(c) == {c[i].key : i \in 1..Len(c)}
RECURSIVE TotalSize(_)
TotalSize(c) == IF c = <<>> THEN 0 ELSE Head(c).size + TotalSize(Tail(c))
\* get(k) of a cached key: the value; the entry becomes the most recently used.
LruGet(c, k) == LruEntry(c, k).value
LruTouch(c, k) == Append(LruWithout(c, k), LruEntry(c, k))
\* Eviction: least recently used entries go until the sizes fit.
RECURSIVE LruEvict(_, _)
LruEvict(c, max) == IF TotalSize(c) > max THEN LruEvict(Tail(c), max) ELSE c
\* set(k, v): the entry becomes the most recently used; a value larger than the
\* whole budget is not stored.
LruSet(c, k, v, size, max) ==
  IF size > max THEN LruWithout(c, k)
  ELSE LruEvict(Append(LruWithout(c, k), [key |-> k, value |-> v, size |-> size]), max)
LruDelete(c, k) == LruWithout(c, k)

\* ghost: the keys that leave the cache start a new epoch.
CacheChange(new) ==
  LET gone == LruKeys(tenantS3CredentialsCache) \ LruKeys(new) IN
  /\ tenantS3CredentialsCache' = new
  /\ evictedKeys' = evictedKeys \cup gone

\* getS3CredentialsByAccessKey(t, a) up to the first cache check.
GetS3CredentialsByAccessKeyEnter(p, t, a) ==
  LET cacheKey == CacheKey(t, a) IN
  /\ cpc[p] \in {"idle", "done"}
  /\ credCall' = [credCall EXCEPT ![p] =
                    [op |-> "get", tenantId |-> t, accessKey |-> a, claims |-> None]]
  /\ ResetCall(p, cacheKey)
  /\ overlapped' = [overlapped EXCEPT ![p] = FALSE]
  /\ IF LruHas(tenantS3CredentialsCache, cacheKey)
     THEN /\ cpc' = [cpc EXCEPT ![p] = "done"]
          /\ credResult' = [credResult EXCEPT ![p] = Ok(LruGet(tenantS3CredentialsCache, cacheKey))]
          /\ tenantS3CredentialsCache' = LruTouch(tenantS3CredentialsCache, cacheKey)
     ELSE /\ cpc' = [cpc EXCEPT ![p] = "locking"]
          /\ credResult' = [credResult EXCEPT ![p] = NoResult]
          /\ UNCHANGED tenantS3CredentialsCache
  /\ UNCHANGED <<s3Credentials, s3CredentialsMutex, published, idSeq, drawn, createCalls,
                 deletedKeys, lookupGhostVars>>

\* The callback without the second cache check (mutant).
S3CredentialsLockedNoRecheck(p) ==
  LET cacheKey == CacheKey(credCall[p].tenantId, credCall[p].accessKey) IN
  /\ cpc[p] = "locking"
  /\ MutexFree(s3CredentialsMutex, cacheKey)
  /\ cpc' = [cpc EXCEPT ![p] = "querying"]
  /\ s3CredentialsMutex' = MutexAcquire(s3CredentialsMutex, cacheKey, p)
  /\ credQueries' = [credQueries EXCEPT ![cacheKey] = Bump(@)]
  /\ UNCHANGED <<s3Credentials, tenantS3CredentialsCache, published, credCall, credResult,
                 pendingInsert, idSeq, drawn, createCalls, credGhostVars, evictedKeys>>

\* The keyed mutex runs the callback: the second cache check, then the query.
S3CredentialsLockedCheck(p) ==
  LET cacheKey == CacheKey(credCall[p].tenantId, credCall[p].accessKey) IN
  /\ cpc[p] = "locking"
  /\ MutexFree(s3CredentialsMutex, cacheKey)
  /\ IF LruHas(tenantS3CredentialsCache, cacheKey)
     THEN /\ cpc' = [cpc EXCEPT ![p] = "done"]
          /\ credResult' = [credResult EXCEPT ![p] = Ok(LruGet(tenantS3CredentialsCache, cacheKey))]
          /\ tenantS3CredentialsCache' = LruTouch(tenantS3CredentialsCache, cacheKey)
          /\ UNCHANGED <<s3CredentialsMutex, credQueries>>
     ELSE /\ cpc' = [cpc EXCEPT ![p] = "querying"]
          /\ s3CredentialsMutex' = MutexAcquire(s3CredentialsMutex, cacheKey, p)
          /\ credQueries' = [credQueries EXCEPT ![cacheKey] = Bump(@)]
          /\ UNCHANGED <<credResult, tenantS3CredentialsCache>>
  /\ UNCHANGED <<s3Credentials, published, credCall, pendingInsert, idSeq, drawn,
                 createCalls, credGhostVars, evictedKeys>>

\* The query returns: MissingS3Credentials, or decrypt, cache and return.
S3CredentialsQueryReply(p) ==
  LET t == credCall[p].tenantId
      a == credCall[p].accessKey
      cacheKey == CacheKey(t, a)
      data == {r \in S3CredentialsOf(t) : r.access_key = a}
  IN
  /\ cpc[p] = "querying"
  /\ IF data = {}
     THEN /\ credResult' = [credResult EXCEPT ![p] = Err("MissingS3Credentials")]
          /\ credQueries' = [credQueries EXCEPT ![cacheKey] = 0]
          /\ UNCHANGED <<tenantS3CredentialsCache, evictedKeys>>
     ELSE LET row == TheOne(data)
              credentials == [accessKey |-> row.access_key,
                              secretKey |-> decrypt(row.secret_key),
                              claims |-> row.claims]
              cache == LruSet(tenantS3CredentialsCache, cacheKey, credentials,
                              objectSizeOf(credentials), maxSize)
          IN /\ CacheChange(cache)
             /\ credQueries' = [k \in CacheKeys |->
                                  IF k \in LruKeys(tenantS3CredentialsCache) \ LruKeys(cache)
                                    THEN 0 ELSE credQueries[k]]
             /\ credResult' = [credResult EXCEPT ![p] = Ok(credentials)]
  /\ cpc' = [cpc EXCEPT ![p] = "done"]
  /\ s3CredentialsMutex' = MutexRelease(s3CredentialsMutex, cacheKey)
  /\ UNCHANGED <<s3Credentials, published, credCall, pendingInsert, idSeq, drawn,
                 createCalls, credGhostVars>>

\* ttl: an hour after its last use the entry of k has expired and is gone
\* (allowStale is false).
ExpireCredential(k) ==
  /\ LruHas(tenantS3CredentialsCache, k)
  /\ tenantS3CredentialsCache' = LruDelete(tenantS3CredentialsCache, k)
  /\ credQueries' = [credQueries EXCEPT ![k] = 0]
  /\ UNCHANGED <<s3Credentials, s3CredentialsMutex, published, cpc, credCall, pendingInsert,
                 credResult, idSeq, drawn, createCalls, credGhostVars, evictedKeys>>

\* deleteS3Credential(t, id), awaited: the store deletes the matching row.
DeleteS3Credential(t, credentialId) ==
  LET removed == {r \in S3CredentialsOf(t) : r.id = credentialId} IN
  /\ s3Credentials' = s3Credentials \ removed
  /\ deletedKeys' = deletedKeys \cup {CacheKey(t, r.access_key) : r \in removed}
  /\ UNCHANGED <<tenantS3CredentialsCache, s3CredentialsMutex, published, cpc, credCall,
                 pendingInsert, credResult, idSeq, drawn, createCalls, countedRows,
                 insertedRows, overlapped, afterDelete, lookupGhostVars>>

\* ---------------------------------------------------- listenForTenantUpdate
\* Line 248.
TENANTS_UPDATE_CHANNEL == "tenants_update"

NoMessage == [channel |-> "", key |-> "", turn |-> 0]
\* ghost: the handler of `channel` is called with `key`; `turn` tells a repeated
\* message from the one before.
NoteMessage(channel, key) ==
  lastMessage' = [channel |-> channel, key |-> key, turn |-> 1 - lastMessage.turn]

\* Line 254: listenForTenantUpdate is called and awaits its first subscribe.
ListenForTenantUpdateEnter ==
  /\ lpc = "idle"
  /\ lpc' = TENANTS_UPDATE_CHANNEL
  /\ UNCHANGED <<subscribed, lastMessage>>

\* Lines 255-262: a subscribe of ../pubsub settles: the handler is registered
\* and the function goes on to the next subscribe, or the subscribe rejects and
\* listenForTenantUpdate throws.
SubscribeReply ==
  /\ lpc \in {TENANTS_UPDATE_CHANNEL, TENANTS_S3_CREDENTIALS_UPDATE_CHANNEL}
  /\ \/ /\ subscribed' = subscribed \cup {lpc}
        /\ lpc' = IF lpc = TENANTS_UPDATE_CHANNEL
                    THEN TENANTS_S3_CREDENTIALS_UPDATE_CHANNEL
                    ELSE "jwks"
     \/ /\ lpc' = "failed"
        /\ UNCHANGED subscribed
  /\ UNCHANGED lastMessage

\* Line 262: jwksManager.listenForTenantUpdate settles.
JwksListenReply ==
  /\ lpc = "jwks"
  /\ lpc' \in {"done", "failed"}
  /\ UNCHANGED <<subscribed, lastMessage>>

\* Lines 255-257: a message on the tenants channel; the handler deletes the key
\* from tenantConfigCache.
TenantsUpdateMessage(cacheKey) ==
  /\ TENANTS_UPDATE_CHANNEL \in subscribed
  /\ NoteMessage(TENANTS_UPDATE_CHANNEL, cacheKey)
  /\ IF cacheKey \in Tenants
       THEN DeleteTenantConfig(cacheKey)
       ELSE /\ tenantConfigCache' = MapDelete(tenantConfigCache, cacheKey)
            /\ UNCHANGED <<tenants, tenantMutex, pc, tenantId, tenant, result, ghostVars>>
  /\ UNCHANGED <<lpc, subscribed>>

\* The credentials handler emptying the whole cache (mutant).
S3CredentialsUpdateMessageClears(cacheKey) ==
  /\ TENANTS_S3_CREDENTIALS_UPDATE_CHANNEL \in subscribed
  /\ NoteMessage(TENANTS_S3_CREDENTIALS_UPDATE_CHANNEL, cacheKey)
  /\ tenantS3CredentialsCache' = <<>>
  /\ credQueries' = [k \in CacheKeys |-> 0]
  /\ UNCHANGED <<s3Credentials, s3CredentialsMutex, published, cpc, credCall, pendingInsert,
                 credResult, idSeq, drawn, createCalls, credGhostVars, evictedKeys>>
  /\ UNCHANGED <<lpc, subscribed>>

\* Lines 258-260: a message on the credentials channel; the handler deletes the
\* key from tenantS3CredentialsCache.
S3CredentialsUpdateMessage(cacheKey) ==
  /\ TENANTS_S3_CREDENTIALS_UPDATE_CHANNEL \in subscribed
  /\ NoteMessage(TENANTS_S3_CREDENTIALS_UPDATE_CHANNEL, cacheKey)
  /\ tenantS3CredentialsCache' = LruDelete(tenantS3CredentialsCache, cacheKey)
  /\ credQueries' = [k \in CacheKeys |-> IF k = cacheKey THEN 0 ELSE credQueries[k]]
  /\ UNCHANGED <<s3Credentials, s3CredentialsMutex, published, cpc, credCall, pendingInsert,
                 credResult, idSeq, drawn, createCalls, credGhostVars, evictedKeys>>
  /\ UNCHANGED <<lpc, subscribed>>

\* No credential call made yet; `rows` is the table's content.
InitCredIdle(rows) ==
  /\ s3Credentials = rows
  /\ tenantS3CredentialsCache = <<>>
  /\ s3CredentialsMutex = [k \in CacheKeys |-> None]
  /\ published = {}
  /\ cpc = [p \in Clients |-> "idle"]
  /\ credCall = [p \in Clients |-> NoCall]
  /\ pendingInsert = [p \in Clients |-> None]
  /\ credResult = [p \in Clients |-> NoResult]
  /\ idSeq = InitialCredentials
  /\ drawn = InitialCredentials
  /\ createCalls = 0
  /\ countedRows = [p \in Clients |-> 0]
  /\ insertedRows = [p \in Clients |-> 0]
  /\ overlapped = [p \in Clients |-> FALSE]
  /\ deletedKeys = {}
  /\ afterDelete = [p \in Clients |-> FALSE]
  /\ credQueries = [k \in CacheKeys |-> 0]
  /\ evictedKeys = {}
  /\ lpc = "idle"
  /\ subscribed = {}
  /\ lastMessage = NoMessage

\* ------------------------------------------------------------ specification
\* Tenant t1 exists, tenant t2 has no row.
InitTenant ==
  /\ tenants = {TenantRow("t1", 1, TRUE, None)}
  /\ tenantConfigCache = <<>>
  /\ tenantMutex = [t \in Tenants |-> None]
  /\ pc = [p \in Procs |-> "idle"]
  /\ tenantId = [p \in Procs |-> ""]
  /\ tenant = [p \in Procs |-> None]
  /\ result = [p \in Procs |-> NoResult]
  /\ queries = [t \in Tenants |-> 0]
  /\ returned = [t \in Tenants |-> {}]
  /\ lastDelete = [t \in Tenants |-> "never"]
  /\ failed = [t \in Tenants |-> FALSE]
  /\ rotation = [t \in Tenants |-> "none"]
  /\ afterRotation = [p \in Procs |-> FALSE]

\* The event side at module load: nothing sent yet.
InitEventIdle ==
  /\ spc = [s \in Sends |-> "idle"]
  /\ event = [s \in Sends |-> NoEvent]
  /\ shouldSendRes = [s \in Sends |-> "pending"]
  /\ queueSends = [s \in Sends |-> <<>>]
  /\ queueJobs = [s \in Sends |-> <<>>]
  /\ handled = [s \in Sends |-> <<>>]
  /\ steps = [s \in Sends |-> <<>>]
  /\ sendResult = [s \in Sends |-> NoResult]
  /\ bpc = "idle"
  /\ batch = NoBatch
  /\ invoked = <<>>
  /\ queueInserts = <<>>
  /\ batchResult = NoResult

Init ==
  /\ InitTenant
  /\ pgQueueEnable = TRUE
  /\ isMultitenant = TRUE
  /\ InitEventIdle
  /\ InitCredIdle({})
  /\ InitClaimsIdle

CallGetTenantConfig(p) == \E t \in TenantIds : GetTenantConfigEnter(p, t)

Next ==
  \/ \E p \in Callers : CallGetTenantConfig(p) /\ UNCHANGED <<eventVars, otherVars>>
  \/ \E p \in Callers : LockedCheck(p) /\ UNCHANGED <<eventVars, otherVars>>
  \/ \E p \in Callers : StoreReply(p) /\ UNCHANGED <<eventVars, otherVars>>
  \/ \E p \in Callers : VerifyReply(p) /\ UNCHANGED <<eventVars, otherVars>>
  \/ \E t \in Tenants : DeleteTenantConfig(t) /\ UNCHANGED <<eventVars, otherVars>>
  \/ \E t \in Tenants, valid \in BOOLEAN : UpdateTenantRow(t, valid, None) /\ UNCHANGED <<eventVars, otherVars>>

Spec == Init /\ [][Next]_vars

\* ------------------------------------------------- claims: tenant config
ServiceKeyPayload == [role |-> "service_role"]
\* The configs getTenantConfig can build for t: one per row t can hold.
FullyBuilt(t) ==
  {BuildConfig(TenantRow(t, v, TRUE, d), ServiceKeyPayload) :
     v \in 1..MaxRowVersion, d \in DisableEventsValues}
\* The callers whose population of t has a store query or verification pending.
Populating(t) == {p \in Procs : pc[p] \in {"querying", "verifying"} /\ tenantId[p] = t}

\* C1: callers racing on an uncached tenant, with no invalidation in between
\* and no failed population, cause at most one store query; at most one
\* population of a tenant is in flight at any time; and all of them return the
\* same fully built TenantConfig.
SingleFlight ==
  \A t \in Tenants :
    /\ Cardinality(Populating(t)) <= 1
    /\ ~failed[t] => queries[t] <= 1
    /\ Cardinality(returned[t]) <= 1
    /\ returned[t] \subseteq FullyBuilt(t)

\* Two callers raced on t1: one populated the cache and returned while the
\* other was still queued on the mutex, and one store query was issued.
SingleFlightWitness ==
  \E p, q \in Callers :
    /\ p # q
    /\ tenantId[p] = "t1" /\ tenantId[q] = "t1"
    /\ pc[p] = "done" /\ result[p].err = "" /\ result[p].val # None
    /\ pc[q] = "waitLock"
    /\ queries["t1"] = 1 /\ ~failed["t1"]

\* C2 (as claimed): once a tenant row was changed and deleteTenantConfig(t) was
\* called afterwards, every getTenantConfig(t) that starts after the delete
\* returns the config of the changed row; and after a delete that removed a
\* cached value the key is absent until a new store query.
NoStaleAfterRotation ==
  /\ \A p \in Callers :
       (pc[p] = "done" /\ afterRotation[p] /\ result[p].err = "")
         => \E row \in FirstTenantWhereId(tenantId[p]) :
              result[p].val = Some(BuildConfig(row, ServiceKeyPayload))
  /\ \A t \in Tenants :
       (lastDelete[t] = "present" /\ queries[t] = 0) => ~MapHas(tenantConfigCache, t)

InitEvent ==
  /\ \E d \in DisableEventsValues, other \in SUBSET {TenantRow("t2", 1, TRUE, None)} :
       tenants = {TenantRow("t1", 1, TRUE, d)} \cup other
  /\ tenantConfigCache = <<>>
  /\ tenantMutex = [t \in Tenants |-> None]
  /\ pc = [p \in Procs |-> "idle"]
  /\ tenantId = [p \in Procs |-> ""]
  /\ tenant = [p \in Procs |-> None]
  /\ result = [p \in Procs |-> NoResult]
  /\ queries = [t \in Tenants |-> 0]
  /\ returned = [t \in Tenants |-> {}]
  /\ lastDelete = [t \in Tenants |-> "never"]
  /\ failed = [t \in Tenants |-> FALSE]
  /\ rotation = [t \in Tenants |-> "none"]
  /\ afterRotation = [p \in Procs |-> FALSE]
  /\ pgQueueEnable \in BOOLEAN
  /\ isMultitenant \in BOOLEAN
  /\ InitEventIdle
  /\ InitCredIdle({})
  /\ InitClaimsIdle

\* new Type(payload).send()
CallSend == \E type \in EventTypes, payload \in Payloads : SendEnter(1, type, payload)
\* Type.send(payload)
CallStaticSend ==
  \E type \in EventTypes, payload \in Payloads :
    SendEnter(1, type, StaticSendPayload(type, payload))

NextEvent ==
  \/ CallSend /\ UNCHANGED otherVars
  \/ CallStaticSend /\ UNCHANGED otherVars
  \/ LockedCheck(Sender) /\ UNCHANGED <<eventVars, otherVars>>
  \/ StoreReply(Sender) /\ UNCHANGED <<eventVars, otherVars>>
  \/ StoreError(Sender) /\ UNCHANGED <<eventVars, otherVars>>
  \/ VerifyReply(Sender) /\ UNCHANGED <<eventVars, otherVars>>
  \/ ShouldSendReply(1) /\ UNCHANGED otherVars
  \/ QueueSendReply(1) /\ UNCHANGED otherVars
  \/ SendReturn(1) /\ UNCHANGED otherVars

SpecEvent == InitEvent /\ [][NextEvent]_vars

\* ------------------------------------------------------ claims: Event.send
\* The tenants row of t lists the event name in disable_events.
TenantDisables(t, name) ==
  \E r \in tenants : r.id = t /\ r.disable_events # None /\ name \in TheOne(r.disable_events)
TenantExists(t) == \E r \in tenants : r.id = t
Sending == spc[1] # "idle"
\* The event being sent is suppressed for its tenant.
Suppressed ==
  Sending /\ isMultitenant /\ TenantDisables(event[1].payload.tenant.ref, event[1].type.name)
\* The event being sent passes the suppression check (which did not throw).
Admitted ==
  /\ Sending
  /\ shouldSendRes[1] # "threw"
  /\ isMultitenant =>
       /\ TenantExists(event[1].payload.tenant.ref)
       /\ ~TenantDisables(event[1].payload.tenant.ref, event[1].type.name)

\* C4: a suppressed event is never handed to the queue nor to the handler and
\* send() returns nothing and throws nothing (its tenant lookup succeeding); every Queue.send and handle call
\* of a send() comes after its shouldSend completed; and an event that is not
\* suppressed, with the queue enabled and the queue name set, is handed to the
\* queue once, send() returning the job id when the queue accepts it.
SuppressedNeverSent ==
  /\ Suppressed => queueSends[1] = <<>> /\ queueJobs[1] = <<>> /\ handled[1] = <<>>
  /\ (Suppressed /\ spc[1] = "done" /\ shouldSendRes[1] # "threw") => sendResult[1] = NoResult
  /\ \A i \in 1..Len(steps[1]) :
       steps[1][i] \in {"queue.send", "handle"} => \E j \in 1..(i - 1) : steps[1][j] = "shouldSend"
  /\ Len(queueSends[1]) + Len(handled[1]) = Cardinality({i \in 1..Len(steps[1]) : steps[1][i] # "shouldSend"})
  /\ (Admitted /\ spc[1] = "done" /\ pgQueueEnable /\ ~QueueNameUnset(event[1].type)) =>
       /\ Len(queueSends[1]) = 1
       /\ queueSends[1][1].name = event[1].type.queueName
       /\ queueJobs[1] # <<>> =>
            /\ queueJobs[1] = queueSends[1]
            /\ handled[1] = <<>>
            /\ sendResult[1] = Ok(JobId(queueJobs[1]))

\* A Webhook event for t1, which disables Webhook, was dropped by a send() that
\* would otherwise have enqueued it.
SuppressedNeverSentWitness ==
  /\ spc[1] = "done"
  /\ Suppressed
  /\ event[1].type.name = "Webhook" /\ event[1].payload.tenant.ref = "t1"
  /\ pgQueueEnable /\ ~QueueNameUnset(event[1].type)
  /\ steps[1] = <<"shouldSend">>
  /\ sendResult[1] = NoResult

\* C5: when Queue.send failed, send() ran the handler exactly once with the
\* job that was handed to the queue, except for the id '__sync', and settled
\* with the handler's outcome: the enqueue error itself never reaches the caller.
EnqueueFailureFallsBack ==
  (spc[1] = "done" /\ Len(queueSends[1]) = 1 /\ queueJobs[1] = <<>>) =>
    /\ Len(handled[1]) = 1
    /\ handled[1][1].job.id = "__sync"
    /\ handled[1][1].job.name = queueSends[1][1].name
    /\ handled[1][1].job.data = queueSends[1][1].data
    /\ sendResult[1] = handled[1][1].outcome
    /\ sendResult[1].err \in {"", "HandlerError"}

\* An enqueue failed and send() returned the handler's result; the payload
\* carried its own $version and a scheduleAt.
EnqueueFailureFallsBackWitness ==
  /\ spc[1] = "done"
  /\ Len(queueSends[1]) = 1 /\ queueJobs[1] = <<>>
  /\ Field(event[1].payload, "$version") = Some("v0")
  /\ Field(event[1].payload, "scheduleAt") # None
  /\ Len(handled[1]) = 1
  /\ sendResult[1] = Ok(<<"handled">>)

\* What the handler must have received and send() returned when it ran inline.
HandledInline ==
  /\ Len(handled[1]) = 1
  /\ handled[1][1].job = [id |-> "__sync", name |-> event[1].type.queueName,
                       data |-> Spread(Spread([region |-> region], event[1].payload),
                                       ("$version" :> event[1].type.version))]
  /\ sendResult[1] = handled[1][1].outcome

\* C6 (as claimed): with the queue disabled, send() of a non-suppressed event
\* enqueues nothing and runs the handler inline if and only if the type allows
\* synchronous handling; a type that disallows it gets no handler call and no error.
DisabledQueueSyncIffAllowed ==
  /\ ~pgQueueEnable => queueSends[1] = <<>> /\ queueJobs[1] = <<>>
  /\ (Admitted /\ spc[1] = "done" /\ ~pgQueueEnable) =>
       /\ event[1].type.allowSync <=> Len(handled[1]) = 1
       /\ event[1].type.allowSync => HandledInline
       /\ ~event[1].type.allowSync => handled[1] = <<>> /\ sendResult[1] = NoResult

\* C6 (amended): ... if and only if the type allows synchronous handling and
\* its queue name is set; with the name unset send() throws the
\* queue-name-unset error and calls no handler.
DisabledQueueSyncIffAllowedAndNamed ==
  /\ ~pgQueueEnable => queueSends[1] = <<>> /\ queueJobs[1] = <<>>
  /\ (Admitted /\ spc[1] = "done" /\ ~pgQueueEnable) =>
       /\ (event[1].type.allowSync /\ ~QueueNameUnset(event[1].type)) <=> Len(handled[1]) = 1
       /\ (event[1].type.allowSync /\ ~QueueNameUnset(event[1].type)) => HandledInline
       /\ (event[1].type.allowSync /\ QueueNameUnset(event[1].type)) =>
            handled[1] = <<>> /\ sendResult[1] = Err("QueueNameUnset")
       /\ ~event[1].type.allowSync => handled[1] = <<>> /\ sendResult[1] = NoResult

\* With the queue disabled, an event of a type that allows synchronous
\* handling was handled inline.
DisabledQueueWitness ==
  /\ spc[1] = "done" /\ ~pgQueueEnable /\ Admitted
  /\ event[1].type.allowSync /\ ~QueueNameUnset(event[1].type)
  /\ HandledInline
  /\ sendResult[1] = Ok(<<"handled">>)

\* --------------------------------------------------- credential store
\* Tenant t1 holds one credential less than the limit, tenant t2 none; no
\* tenant-config call and no event is in progress.
InitCred ==
  /\ InitTenant
  /\ pgQueueEnable = TRUE
  /\ isMultitenant = TRUE
  /\ InitEventIdle
  /\ InitCredIdle({CredentialRow(i, "t1", i, None) : i \in 1..InitialCredentials})
  /\ InitClaimsIdle

\* The calls are made for the tenant that holds credentials.
CallCreateS3Credentials(p) ==
  \E claims \in CreateClaims : CreateS3CredentialsEnter(p, "t1", claims)
CallGetS3CredentialsByAccessKey(p) ==
  \E a \in LookupKeys : GetS3CredentialsByAccessKeyEnter(p, "t1", a)
CallDeleteS3Credential ==
  \E id \in DeleteIds : DeleteS3Credential("t1", id)

restVars == <<tenantVars, ghostVars, eventVars, claimsVars, batchVars, pubsubVars>>

NextCred ==
  \/ \E p \in Creators : CallCreateS3Credentials(p) /\ UNCHANGED restVars
  \/ \E p \in Creators : CountReply(p) /\ UNCHANGED restVars
  \/ \E p \in Creators : InsertReply(p) /\ UNCHANGED restVars
  \/ CallGetS3CredentialsByAccessKey(Reader) /\ UNCHANGED restVars
  \/ S3CredentialsLockedCheck(Reader) /\ UNCHANGED restVars
  \/ S3CredentialsQueryReply(Reader) /\ UNCHANGED restVars
  \/ CallDeleteS3Credential /\ UNCHANGED restVars

SpecCred == InitCred /\ [][NextCred]_vars

\* --------------------------------------------------- claims: credential store
FinishedGet(p) == cpc[p] = "done" /\ credCall[p].op = "get"
FinishedCreate(p) == cpc[p] = "done" /\ credCall[p].op = "create"

\* C7: once deleteS3Credential(t, id) has completed, the credential cache holds
\* no entry for the deleted credential's tenant:accessKey, an invalidation for
\* that key has been published on the credentials update channel, and a
\* getS3CredentialsByAccessKey for it started afterwards fails with
\* MissingS3Credentials instead of returning the deleted credential.
DeleteInvalidatesCredential ==
  /\ \A k \in deletedKeys :
       /\ ~LruHas(tenantS3CredentialsCache, k)
       /\ <<TENANTS_S3_CREDENTIALS_UPDATE_CHANNEL, k>> \in published
  /\ \A p \in Clients :
       (FinishedGet(p) /\ afterDelete[p]) => credResult[p] = Err("MissingS3Credentials")

\* C8: in every reachable state, under any interleaving of createS3Credentials
\* and deleteS3Credential calls, the store holds at most 50 credentials of each
\* tenant.
AtMostMaxCredentials ==
  \A t \in Tenants : Cardinality(S3CredentialsOf(t)) <= MaxCredentials

InitClaims ==
  /\ InitTenant
  /\ pgQueueEnable = TRUE
  /\ isMultitenant = TRUE
  /\ InitEventIdle
  /\ InitCredIdle({})
  /\ callerClaims \in ClaimsArguments
  /\ claimsTenant \in Tenants
  /\ persistedClaims = None

NextClaims ==
  PersistClaims /\ UNCHANGED <<tenantVars, ghostVars, eventVars, credVars, credGhostVars,
                             lookupGhostVars, batchVars, pubsubVars>>

SpecClaims == InitClaims /\ [][NextClaims]_vars

\* --------------------------------------------------- claims: persisted claims
\* Claims a caller may add beyond role, sub and the reserved ones.
CustomClaims == {"custom"}
SuppliedClaim(k) == IF callerClaims = None THEN Undefined ELSE Get(TheOne(callerClaims), k)

\* C10: whatever claims object the caller supplies, the persisted claims have no
\* iss, exp or iat, their issuer is 'supabase.storage.' followed by the tenant
\* id, and every custom claim is persisted with the value the caller gave it.
ReservedClaimsServerAssigned ==
  persistedClaims # None =>
    LET persisted == TheOne(persistedClaims) IN
    /\ DOMAIN persisted \cap {"iss", "exp", "iat"} = {}
    /\ "issuer" \in DOMAIN persisted
    /\ persisted["issuer"] = "supabase.storage." \o claimsTenant
    /\ \A k \in CustomClaims : Get(persisted, k) = SuppliedClaim(k)

\* A caller supplied all four reserved claims and a custom one; they were persisted.
ReservedClaimsWitness ==
  /\ persistedClaims # None
  /\ callerClaims # None
  /\ {"iss", "issuer", "exp", "iat", "custom"} \subseteq DOMAIN TheOne(callerClaims)
  /\ TheOne(callerClaims)["custom"] = "x"

\* --------------------------------------------------- failing populations
\* The service key of the t1 row verifies or not, t2 has no row, and the store
\* may reject a query. The rows stay as they are (Spec covers their changes).
InitFailure ==
  /\ \E valid \in BOOLEAN : tenants = {TenantRow("t1", 1, valid, None)}
  /\ tenantConfigCache = <<>>
  /\ tenantMutex = [t \in Tenants |-> None]
  /\ pc = [p \in Procs |-> "idle"]
  /\ tenantId = [p \in Procs |-> ""]
  /\ tenant = [p \in Procs |-> None]
  /\ result = [p \in Procs |-> NoResult]
  /\ queries = [t \in Tenants |-> 0]
  /\ returned = [t \in Tenants |-> {}]
  /\ lastDelete = [t \in Tenants |-> "never"]
  /\ failed = [t \in Tenants |-> FALSE]
  /\ rotation = [t \in Tenants |-> "none"]
  /\ afterRotation = [p \in Procs |-> FALSE]
  /\ pgQueueEnable = TRUE
  /\ isMultitenant = TRUE
  /\ InitEventIdle
  /\ InitCredIdle({})
  /\ InitClaimsIdle

NextFailure ==
  \/ \E p \in Callers : CallGetTenantConfig(p) /\ UNCHANGED <<eventVars, otherVars>>
  \/ \E p \in Callers : LockedCheck(p) /\ UNCHANGED <<eventVars, otherVars>>
  \/ \E p \in Callers : StoreReply(p) /\ UNCHANGED <<eventVars, otherVars>>
  \/ \E p \in Callers : StoreError(p) /\ UNCHANGED <<eventVars, otherVars>>
  \/ \E p \in Callers : VerifyReply(p) /\ UNCHANGED <<eventVars, otherVars>>
  \/ \E t \in Tenants : DeleteTenantConfig(t) /\ UNCHANGED <<eventVars, otherVars>>

SpecFailure == InitFailure /\ [][NextFailure]_vars

\* --------------------------------------------------- claims: failed population
\* The call of p settles with an error in this step.
ThrowsNow(p) ==
  /\ pc'[p] = "done"
  /\ result'[p].err # ""
  /\ <<pc[p], result[p]>> # <<pc'[p], result'[p]>>

\* C11: a getTenantConfig(t) call that fails hands its error to the caller:
\* InvalidTenantId exactly for the empty id, before any lock or store query,
\* MissingTenantConfig when the store has no row, otherwise the store's or the
\* verification's error; the cache then holds no entry for t, and an error for a
\* non-empty id only ever comes out of a store query that call issued itself,
\* so a later call queries again.
FailureNotCached ==
  [][\A p \in Procs :
       ThrowsNow(p) =>
         /\ ~MapHas(tenantConfigCache', tenantId'[p])
         /\ (result'[p].err = "InvalidTenantId") <=> (tenantId'[p] = "")
         /\ tenantId'[p] = "" =>
              /\ pc[p] \in {"idle", "done"}
              /\ UNCHANGED <<tenantMutex, queries>>
         /\ tenantId'[p] # "" =>
              /\ pc[p] \in {"querying", "verifying"}
              /\ result'[p].err \in {"MissingTenantConfig", "StoreError", "InvalidJWT"}
              /\ MutexFree(tenantMutex', tenantId[p])
         /\ (result'[p].err = "MissingTenantConfig") => FirstTenantWhereId(tenantId[p]) = {}
         /\ (result'[p].err = "InvalidJWT") =>
              verifyJWT(decrypt(TheOne(tenant[p]).service_key),
                        decrypt(TheOne(tenant[p]).jwt_secret)) = None
    ]_vars

\* A call for t2 failed with MissingTenantConfig, nothing is cached for t2, and
\* t2 was queried more than once since its last invalidation.
FailureNotCachedWitness ==
  /\ \E p \in Callers : pc[p] = "done" /\ tenantId[p] = "t2"
                          /\ result[p] = Err("MissingTenantConfig")
  /\ ~MapHas(tenantConfigCache, "t2")
  /\ failed["t2"]
  /\ queries["t2"] = 2

\* --------------------------------------------------- keyed lock, with progress
\* The tenant rows stay as they are; callers come and go and entries are
\* invalidated.
Granted(p) == LockedCheck(p) /\ UNCHANGED <<eventVars, otherVars>>
Answered(p) == StoreReply(p) /\ UNCHANGED <<eventVars, otherVars>>
Verified(p) == VerifyReply(p) /\ UNCHANGED <<eventVars, otherVars>>

NextLock ==
  \/ \E p \in Callers : CallGetTenantConfig(p) /\ UNCHANGED <<eventVars, otherVars>>
  \/ \E p \in Callers : Granted(p)
  \/ \E p \in Callers : Answered(p)
  \/ \E p \in Callers : StoreError(p) /\ UNCHANGED <<eventVars, otherVars>>
  \/ \E p \in Callers : Verified(p)
  \/ \E t \in Tenants : DeleteTenantConfig(t) /\ UNCHANGED <<eventVars, otherVars>>

\* The store and verifyJWT answer every request, and the mutex hands a free key
\* to each waiter in turn: no waiter is passed over for ever.
FairLock ==
  \A p \in Callers :
    /\ SF_vars(Granted(p))
    /\ WF_vars(Answered(p))
    /\ WF_vars(Verified(p))

SpecLock == Init /\ [][NextLock]_vars /\ FairLock

\* The callback of p is running under the key t.
RunsUnder(p, t) == pc[p] \in {"querying", "verifying"} /\ tenantId[p] = t

BlobOf == <<"blob20", "blob25", "blob30">>
InitLookup ==
  /\ InitTenant
  /\ pgQueueEnable = TRUE
  /\ isMultitenant = TRUE
  /\ InitEventIdle
  /\ InitCredIdle({CredentialRow(i, "t1", i, Some([custom |-> BlobOf[i]])) : i \in 1..3})
  /\ InitClaimsIdle

CallLookup(p) == \E a \in ProbeKeys : GetS3CredentialsByAccessKeyEnter(p, "t1", a)

NextLookup ==
  \/ \E p \in Creators : CallLookup(p) /\ UNCHANGED restVars
  \/ \E p \in Creators : S3CredentialsLockedCheck(p) /\ UNCHANGED restVars
  \/ \E p \in Creators : S3CredentialsQueryReply(p) /\ UNCHANGED restVars
  \/ \E k \in CacheKeys : ExpireCredential(k) /\ UNCHANGED restVars

SpecLookup == InitLookup /\ [][NextLookup]_vars

\* --------------------------------------------------- claims: credential lookups
CallKey(p) == CacheKey(credCall[p].tenantId, credCall[p].accessKey)
RowsOf(k) == {r \in s3Credentials : CacheKey(r.tenant_id, r.access_key) = k}
CredentialOf(row) ==
  [accessKey |-> row.access_key, secretKey |-> decrypt(row.secret_key), claims |-> row.claims]

\* C13: for a tenant:accessKey whose row exists, the concurrent lookups issue at
\* most one store query while the key stays out of the cache, every one of them
\* returns the row's decrypted credential, and the one that queried leaves it
\* cached under the key; a lookup of a key without row fails with
\* MissingS3Credentials and nothing is cached for that key.
CredentialSingleFlight ==
  /\ [](\A k \in CacheKeys : RowsOf(k) # {} => credQueries[k] <= 1)
  /\ [](\A p \in Clients :
          FinishedGet(p) =>
            IF RowsOf(CallKey(p)) # {}
              THEN credResult[p] = Ok(CredentialOf(TheOne(RowsOf(CallKey(p)))))
              ELSE /\ credResult[p] = Err("MissingS3Credentials")
                   /\ ~LruHas(tenantS3CredentialsCache, CallKey(p)))
  /\ [][\A p \in Clients :
          (cpc[p] = "querying" /\ cpc'[p] = "done" /\ credResult'[p].err = "") =>
            /\ LruHas(tenantS3CredentialsCache', CallKey(p))
            /\ Ok(LruGet(tenantS3CredentialsCache', CallKey(p))) = credResult'[p]
     ]_vars

\* Two lookups of the same stored key have both returned, after one store query,
\* and a lookup of the key without row has failed.
CredentialSingleFlightWitness ==
  \E p, q \in Clients :
    /\ p # q
    /\ FinishedGet(p) /\ FinishedGet(q)
    /\ CallKey(p) = CallKey(q)
    /\ credResult[p].err = "" /\ credResult[q].err = ""
    /\ credQueries[CallKey(p)] = 1
    /\ LruHas(tenantS3CredentialsCache, CallKey(p))

\* Position of k in the order of last use.
Rank(c, k) == CHOOSE i \in 1..Len(c) : c[i].key = k
\* Summed size of the entries of c under the keys ks.
SizeOfKeys(c, ks) == TotalSize(SelectSeq(c, LAMBDA e : e.key \in ks))

\* C14: the sizes of the cached credentials always sum to at most 50 MB; when an
\* insertion evicts entries, it would have exceeded the budget otherwise, the
\* evicted entries are less recently used than every entry kept, and none more
\* is evicted than needed; a cache hit makes its entry the most recently used;
\* and a lookup only ever returns without a store query on a hit, so the
\* lookup of an evicted key queries the store again.
CacheWithinBudget ==
  /\ [](TotalSize(tenantS3CredentialsCache) <= 50 * 1024 * 1024)
  /\ [][LET old == tenantS3CredentialsCache
            new == tenantS3CredentialsCache'
            gone == LruKeys(old) \ LruKeys(new)
            added == LruKeys(new) \ LruKeys(old)
            kept == LruKeys(old) \cap LruKeys(new)
        IN (gone # {} /\ added # {}) =>
             /\ TotalSize(old) + SizeOfKeys(new, added) > 50 * 1024 * 1024
             /\ \A g \in gone, k \in kept : Rank(old, g) < Rank(old, k)
             /\ \A g \in gone : (\A h \in gone : Rank(old, h) <= Rank(old, g)) =>
                   TotalSize(new) + LruEntry(old, g).size > 50 * 1024 * 1024
     ]_vars
  /\ [][\A p \in Clients :
          (cpc[p] # "querying" /\ cpc'[p] = "done" /\ credCall'[p].op = "get"
             /\ <<cpc[p], credCall[p], credResult[p]>> # <<cpc'[p], credCall'[p], credResult'[p]>>) =>
            /\ LruHas(tenantS3CredentialsCache, CallKey(p)')
            /\ Rank(tenantS3CredentialsCache', CallKey(p)') = Len(tenantS3CredentialsCache')
     ]_vars

\* The budget has evicted a key, which a lookup is now fetching from the store
\* again, while the cache is 50 MB full.
CacheWithinBudgetWitness ==
  /\ TotalSize(tenantS3CredentialsCache) = 50 * 1024 * 1024
  /\ \E p \in Clients : cpc[p] = "querying" /\ CallKey(p) \in evictedKeys

\* --------------------------------------------------- claims: unset queue name
\* The send() in progress is for a type whose queueName is the empty string.
NameUnset == event[1].type.queueName = ""

\* C20: send() of an event that passed the suppression check, for a type with no
\* queue name, throws the queue-name-unset error whenever it gets to the enqueue
\* step (queue enabled) or to the inline handling step (queue disabled, allowSync);
\* no send() of such a type ever calls Queue.send or the handler, so the fallback
\* of the enqueue step does not turn the error into a handler result.
UnsetQueueNameThrows ==
  /\ (Sending /\ NameUnset) =>
       queueSends[1] = <<>> /\ queueJobs[1] = <<>> /\ handled[1] = <<>>
  /\ (spc[1] = "done" /\ Admitted /\ NameUnset /\ (pgQueueEnable \/ event[1].type.allowSync)) =>
       /\ sendResult[1] = Err("QueueNameUnset")
       /\ steps[1] = <<"shouldSend">>

\* With the queue enabled, a send() for a type without a queue name, which
\* allows inline handling, threw the queue-name-unset error.
UnsetQueueNameThrowsWitness ==
  /\ spc[1] = "done" /\ Admitted /\ NameUnset
  /\ pgQueueEnable /\ event[1].type.allowSync
  /\ sendResult[1] = Err("QueueNameUnset")
  /\ handled[1] = <<>> /\ queueSends[1] = <<>>

\* --------------------------------------------------- slow retry
\* Event types as in EventTypes, with queue options that may carry their own
\* startAfter.
SlowRetryTypes ==
  { [ name |-> n,
      queueName |-> q,
      allowSync |-> TRUE,
      version |-> "v1",
      queueOptions |-> o ] :
      n \in EventNames, q \in {"", "queue"},
      o \in {None, Some([retryLimit |-> 3]), Some([retryLimit |-> 3, startAfter |-> 60])} }

\* new Type(payload).sendSlowRetryQueue()
CallSendSlowRetryQueue ==
  \E type \in SlowRetryTypes, payload \in Payloads : SendSlowRetryQueueEnter(1, type, payload)
\* Type.sendSlowRetryQueue(payload), lines 133-142
CallStaticSendSlowRetryQueue ==
  \E type \in SlowRetryTypes, payload \in Payloads :
    SendSlowRetryQueueEnter(1, type, StaticSendPayload(type, payload))

NextSlow ==
  \/ CallSendSlowRetryQueue /\ UNCHANGED otherVars
  \/ CallStaticSendSlowRetryQueue /\ UNCHANGED otherVars
  \/ SlowQueueSendReply(1) /\ UNCHANGED otherVars
  \/ SendReturn(1) /\ UNCHANGED otherVars

SpecSlow == InitEvent /\ [][NextSlow]_vars

\* --------------------------------------------------- claims: slow retry
\* C17: sendSlowRetryQueue() for a type that declares no slow-retry policy, or
\* with the queue disabled, calls neither Queue.send nor the handler and
\* returns without a job id and without an error.
SlowRetryNoop ==
  (Sending /\ (~pgQueueEnable \/ event[1].type.name # "Webhook")) =>
    /\ spc[1] = "done"
    /\ queueSends[1] = <<>> /\ queueJobs[1] = <<>> /\ handled[1] = <<>> /\ steps[1] = <<>>
    /\ sendResult[1] = NoResult

\* With the queue disabled, sendSlowRetryQueue() of a Webhook event (policy
\* declared, queue name set) returned nothing.
SlowRetryNoopWitness ==
  /\ spc[1] = "done" /\ ~pgQueueEnable
  /\ event[1].type.name = "Webhook" /\ event[1].type.queueName = "queue"
  /\ queueSends[1] = <<>> /\ sendResult[1] = NoResult

\* The one Queue.send call of a sendSlowRetryQueue() with a declared policy.
SlowRetrySend == queueSends[1][1]
\* Its options, apart from the initial delay.
SlowRetrySentOnce ==
  /\ Len(queueSends[1]) = 1
  /\ SlowRetrySend.name = event[1].type.queueName \o "-slow"
  /\ SlowRetrySend.name # event[1].type.queueName
  /\ handled[1] = <<>>
  /\ TheOne(SlowRetrySend.options).retryBackoff = TRUE
  /\ TheOne(SlowRetrySend.options).retryLimit = 10
  /\ TheOne(SlowRetrySend.options).retryDelay = 5
  /\ "startAfter" \in DOMAIN QueueOptionsOrEmpty(event[1].type) =>
       TheOne(SlowRetrySend.options).startAfter = QueueOptionsOrEmpty(event[1].type).startAfter

\* C18 (as claimed): with a declared policy, the queue enabled and the queue
\* name set, sendSlowRetryQueue() makes exactly one Queue.send, to the queue
\* named queueName + '-slow', with retryBackoff set, the policy's retryLimit and
\* retryDelay overriding the type's own options, and startAfter equal to 1800
\* seconds (30 minutes) unless the type's options carry a startAfter.
SlowRetryDelayThirtyMinutes ==
  (Sending /\ pgQueueEnable /\ event[1].type.name = "Webhook" /\ ~NameUnset) =>
    /\ SlowRetrySentOnce
    /\ "startAfter" \notin DOMAIN QueueOptionsOrEmpty(event[1].type) =>
         TheOne(SlowRetrySend.options).startAfter = 30 * 60

\* --------------------------------------------------- batches
\* The payloads of a batch: for t1 a plain one and one with its own $version and
\* a scheduleAt, for t2 a plain one.
BatchPayloads ==
  {p \in Payloads : \/ DOMAIN p = {"tenant"}
                    \/ p.tenant.ref = "t1" /\ DOMAIN p = {"tenant", "$version", "scheduleAt"}}
BatchMessages == UNION {[1..n -> BatchPayloads] : n \in 0..MaxBatch}

\* Type.batchSend(messages)
CallBatchSend == \E type \in EventTypes, messages \in BatchMessages : BatchSendEnter(type, messages)

\* The map of batchSend runs to its end before any continuation does.
Mapping == bpc = "mapping"

NextBatch ==
  \/ CallBatchSend /\ UNCHANGED storeVars
  \/ BatchSendInvoke /\ UNCHANGED storeVars
  \/ BatchSendSettle /\ ~Mapping /\ UNCHANGED storeVars
  \/ BatchInsertReply /\ ~Mapping /\ UNCHANGED storeVars
  \/ BatchSendReturn /\ ~Mapping /\ UNCHANGED storeVars
  \/ \E s \in Sends : ~Mapping /\ LockedCheck(SenderOf(s)) /\ UNCHANGED <<eventVars, otherVars>>
  \/ \E s \in Sends : ~Mapping /\ StoreReply(SenderOf(s)) /\ UNCHANGED <<eventVars, otherVars>>
  \/ \E s \in Sends : ~Mapping /\ StoreError(SenderOf(s)) /\ UNCHANGED <<eventVars, otherVars>>
  \/ \E s \in Sends : ~Mapping /\ VerifyReply(SenderOf(s)) /\ UNCHANGED <<eventVars, otherVars>>
  \/ \E s \in Sends : ~Mapping /\ ShouldSendReply(s) /\ UNCHANGED otherVars

SpecBatch == InitEvent /\ [][NextBatch]_vars

\* --------------------------------------------------- claims: batchSend
Batching == bpc # "idle"
NothingEnqueued ==
  /\ queueInserts = <<>>
  /\ \A s \in Sends : queueSends[s] = <<>> /\ queueJobs[s] = <<>>
NothingHandled == \A s \in Sends : handled[s] = <<>>
NoSendInvoked == invoked = <<>> /\ \A s \in Sends : spc[s] = "idle"

\* Queue disabled, allowSync: send() is called on every message once, in input
\* order, all of them before batchSend awaits, and nothing is enqueued.
BatchSendsEach ==
  (Batching /\ ~pgQueueEnable /\ batch.type.allowSync) =>
    /\ NothingEnqueued
    /\ invoked = [i \in 1..Len(invoked) |-> i]
    /\ Len(invoked) <= Len(batch.messages)
    /\ ~Mapping => Len(invoked) = Len(batch.messages)
    /\ \A i \in 1..Len(invoked) :
         /\ spc[i] # "idle"
         /\ event[i] = [type |-> batch.type, payload |-> batch.messages[i]]
    /\ \A s \in Sends : s > Len(invoked) => spc[s] = "idle"

\* Queue disabled, no allowSync: batchSend returns at once, having done nothing.
BatchSkipped ==
  (Batching /\ ~pgQueueEnable /\ ~batch.type.allowSync) =>
    /\ bpc = "done" /\ batchResult = NoResult
    /\ NoSendInvoked /\ NothingHandled /\ NothingEnqueued

\* The i-th job of the bulk insert is the job of the i-th message.
JobOfMessage(job, type, payload) ==
  /\ job.name = type.queueName
  /\ job.data = payload
  /\ \A k \in DOMAIN QueueOptionsOrEmpty(type) : job[k] = QueueOptionsOrEmpty(type)[k]
  /\ Field(job, "startAfter") = Field(payload, "scheduleAt")

\* One Queue.insert, with one job per message in input order; no send() and no
\* handler.
BatchInsertedOnce ==
  /\ Len(queueInserts) = 1
  /\ Len(queueInserts[1]) = Len(batch.messages)
  /\ \A i \in 1..Len(batch.messages) :
       JobOfMessage(queueInserts[1][i], batch.type, batch.messages[i])
  /\ NoSendInvoked /\ NothingHandled

\* C16 (as claimed): batchSend does one of three things: queue disabled and
\* allowSync, it calls every message's send() once and enqueues nothing; queue
\* disabled and no allowSync, it calls no send(), no handler and enqueues nothing;
\* queue enabled, it makes exactly one bulk insert of one job per message, in
\* input order, each with the type's queue name and its own payload's options.
BatchSendThreeWays ==
  /\ BatchSendsEach
  /\ BatchSkipped
  /\ (Batching /\ pgQueueEnable) => BatchInsertedOnce

\* C16 (amended): ... queue enabled and the queue name set (or the batch empty),
\* it makes exactly one bulk insert as above; queue enabled, a non-empty batch
\* and no queue name set, it throws the queue-name-unset error and inserts nothing.
BatchSendThreeWaysNamed ==
  /\ BatchSendsEach
  /\ BatchSkipped
  /\ (Batching /\ pgQueueEnable) =>
       IF batch.messages # <<>> /\ batch.type.queueName = ""
         THEN /\ bpc = "done" /\ batchResult = Err("QueueNameUnset")
              /\ NothingEnqueued /\ NoSendInvoked /\ NothingHandled
         ELSE BatchInsertedOnce

\* A batch of two different messages, the second with a scheduleAt, was
\* inserted in one call.
BatchSendThreeWaysWitness ==
  /\ bpc = "done" /\ pgQueueEnable /\ batchResult = Ok(<<"inserted">>)
  /\ Len(batch.messages) = 2
  /\ batch.messages[1].tenant.ref = "t2"
  /\ Field(batch.messages[2], "scheduleAt") # None
  /\ Len(queueInserts) = 1 /\ Len(queueInserts[1]) = 2
  /\ queueInserts[1][2].startAfter = batch.messages[2].scheduleAt

\* --------------------------------------------------- claims: envelope version
\* The $version the envelope of an event must carry: the caller's when the
\* payload came with one, the type's otherwise.
ExpectedVersion(e) ==
  IF Field(e.payload, "$version") # None THEN e.payload["$version"] ELSE e.type.version

\* C15 (as claimed): every envelope send() hands to Queue.send or to the handler
\* carries the caller's $version when the payload has one and the type's
\* version otherwise.
EnvelopeKeepsCallerVersion ==
  /\ \A i \in 1..Len(queueSends[1]) :
       queueSends[1][i].data["$version"] = ExpectedVersion(event[1])
  /\ \A i \in 1..Len(handled[1]) :
       handled[1][i].job.data["$version"] = ExpectedVersion(event[1])

\* --------------------------------------------------- claims: suppression on every path
\* In multi-tenant mode the tenant of the payload disables the type's events.
SuppressedFor(type, payload) ==
  isMultitenant /\ TenantDisables(payload.tenant.ref, type.name)

\* C19 (as claimed): no event that is suppressed for its tenant is enqueued or
\* handled through batchSend, whether by the bulk insert or by the send() calls
\* it makes.
SuppressedNeverBatched ==
  /\ \A c \in 1..Len(queueInserts) : \A i \in 1..Len(queueInserts[c]) :
       ~SuppressedFor(batch.type, queueInserts[c][i].data)
  /\ \A s \in Sends :
       (spc[s] # "idle" /\ SuppressedFor(event[s].type, event[s].payload)) =>
         queueSends[s] = <<>> /\ handled[s] = <<>>

NoInlineWithoutAllowSync ==
  \A s \in Sends :
    (spc[s] # "idle" /\ ~event[s].type.allowSync) => handled[s] = <<>>

\* --------------------------------------------------- claims: one envelope on both paths
\* What send() hands to Queue.send for an event (lines 189-208).
SendJob(type, payload) ==
  [name |-> type.queueName, data |-> JobData(type, payload),
   options |-> SendOptions(type, payload)]

\* The bulk-insert job carries the name, the data and the options of the
\* Queue.send call.
SameEnvelope(job, sent) ==
  LET options == IF sent.options = None THEN <<>> ELSE TheOne(sent.options) IN
  /\ job.name = sent.name
  /\ job.data = sent.data
  /\ DOMAIN job \ {"name", "data"} = DOMAIN options
  /\ \A k \in DOMAIN options : job[k] = options[k]

\* C22 (as claimed): every job batchSend hands to Queue.insert is the job send()
\* hands to Queue.send for the same payload: same queue name, same data (region,
\* payload fields, $version) and same options (startAfter from scheduleAt).
BatchJobEqualsSendJob ==
  \A c \in 1..Len(queueInserts) : \A i \in 1..Len(queueInserts[c]) :
    SameEnvelope(queueInserts[c][i], SendJob(batch.type, batch.messages[i]))

\* --------------------------------------------------- invalidation messages
\* Both tenants have a row and t1 holds two credentials, so that either cache
\* can hold two entries. One caller fills the tenant cache, one client the
\* credential cache; messages arrive for any key of either cache, on either
\* channel.
InitListen ==
  /\ tenants = {TenantRow(t, 1, TRUE, None) : t \in Tenants}
  /\ tenantConfigCache = <<>>
  /\ tenantMutex = [t \in Tenants |-> None]
  /\ pc = [p \in Procs |-> "idle"]
  /\ tenantId = [p \in Procs |-> ""]
  /\ tenant = [p \in Procs |-> None]
  /\ result = [p \in Procs |-> NoResult]
  /\ queries = [t \in Tenants |-> 0]
  /\ returned = [t \in Tenants |-> {}]
  /\ lastDelete = [t \in Tenants |-> "never"]
  /\ failed = [t \in Tenants |-> FALSE]
  /\ rotation = [t \in Tenants |-> "none"]
  /\ afterRotation = [p \in Procs |-> FALSE]
  /\ pgQueueEnable = TRUE
  /\ isMultitenant = TRUE
  /\ InitEventIdle
  /\ InitCredIdle({CredentialRow(i, "t1", i, None) : i \in 1..2})
  /\ InitClaimsIdle

MessageKeys == Tenants \cup {CacheKey("t1", AccessKey(1)), CacheKey("t1", AccessKey(2))}
tenantFrame == <<eventVars, credVars, credGhostVars, lookupGhostVars, claimsVars, batchVars>>
credentialFrame == <<tenantVars, ghostVars, eventVars, claimsVars, batchVars>>

NextListen ==
  \/ ListenForTenantUpdateEnter /\ UNCHANGED <<tenantVars, ghostVars, credentialFrame, tenantFrame>>
  \/ SubscribeReply /\ UNCHANGED <<tenantVars, ghostVars, credentialFrame, tenantFrame>>
  \/ JwksListenReply /\ UNCHANGED <<tenantVars, ghostVars, credentialFrame, tenantFrame>>
  \/ \E k \in MessageKeys : TenantsUpdateMessage(k) /\ UNCHANGED tenantFrame
  \/ \E k \in MessageKeys : S3CredentialsUpdateMessage(k) /\ UNCHANGED credentialFrame
  \/ \E t \in Tenants : GetTenantConfigEnter(Sender, t) /\ UNCHANGED <<eventVars, otherVars>>
  \/ LockedCheck(Sender) /\ UNCHANGED <<eventVars, otherVars>>
  \/ StoreReply(Sender) /\ UNCHANGED <<eventVars, otherVars>>
  \/ VerifyReply(Sender) /\ UNCHANGED <<eventVars, otherVars>>
  \/ \E a \in {AccessKey(1), AccessKey(2)} :
       GetS3CredentialsByAccessKeyEnter(Reader, "t1", a) /\ UNCHANGED restVars
  \/ S3CredentialsLockedCheck(Reader) /\ UNCHANGED restVars
  \/ S3CredentialsQueryReply(Reader) /\ UNCHANGED restVars

SpecListen == InitListen /\ [][NextListen]_vars

\* --------------------------------------------------- claims: invalidation messages
\* A handler is called in this step.
MessageNow == lastMessage' # lastMessage
\* The entries of the credential cache other than k, in their order of use.
CredentialsBut(c, k) == SelectSeq(c, LAMBDA entry : entry.key # k)

\* C21: a message with key k on the tenants channel removes the entry of k from
\* the tenant config cache and a message with key k on the credentials channel
\* removes the entry of k from the credential cache; every other entry of the
\* two caches stays as it is (values, sizes and order of use), a message for a
\* key that is not cached changes neither cache, and the handler applied once
\* more to the resulting caches would change nothing.
MessageRemovesItsKey ==
  [][MessageNow =>
       LET channel == lastMessage'.channel
           k == lastMessage'.key
       IN
         /\ channel \in subscribed
         /\ channel = TENANTS_UPDATE_CHANNEL =>
              /\ DOMAIN tenantConfigCache' = DOMAIN tenantConfigCache \ {k}
              /\ \A t \in DOMAIN tenantConfigCache' : tenantConfigCache'[t] = tenantConfigCache[t]
              /\ tenantS3CredentialsCache' = tenantS3CredentialsCache
              /\ ~MapHas(tenantConfigCache, k) => tenantConfigCache' = tenantConfigCache
              /\ MapDelete(tenantConfigCache', k) = tenantConfigCache'
         /\ channel = TENANTS_S3_CREDENTIALS_UPDATE_CHANNEL =>
              /\ ~LruHas(tenantS3CredentialsCache', k)
              /\ tenantS3CredentialsCache' = CredentialsBut(tenantS3CredentialsCache, k)
              /\ tenantConfigCache' = tenantConfigCache
              /\ ~LruHas(tenantS3CredentialsCache, k) =>
                   tenantS3CredentialsCache' = tenantS3CredentialsCache
              /\ LruDelete(tenantS3CredentialsCache', k) = tenantS3CredentialsCache'
    ]_vars

\* listenForTenantUpdate has returned; both caches held two entries when a
\* message for t1:ak1 arrived on the credentials channel, and now the
\* credential cache holds only t1:ak2 and the tenant cache both tenants.
MessageRemovesItsKeyWitness ==
  /\ lpc = "done"
  /\ lastMessage.channel = TENANTS_S3_CREDENTIALS_UPDATE_CHANNEL
  /\ lastMessage.key = CacheKey("t1", AccessKey(1))
  /\ LruKeys(tenantS3CredentialsCache) = {CacheKey("t1", AccessKey(2))}
  /\ DOMAIN tenantConfigCache = Tenants
  /\ credQueries[CacheKey("t1", AccessKey(1))] = 0
  /\ credQueries[CacheKey("t1", AccessKey(2))] = 1

====
